---- MODULE Spec2Model ----
(***************************************************************************)
(* Model of the retrieval index (FileSystemTools, src/tools.ts) and of the *)
(* tool-dispatch loop (CodeSearchAgent, dist/codeAgent.js) of XPlan.      *)
(*                                                                         *)
(* Every `await` of the source is a suspension point: an action runs the   *)
(* synchronous code between two awaits.  Several chat() calls may be in    *)
(* flight at once (the source has no guard), on agents that share one      *)
(* FileSystemTools instance as in src/main.ts.  A call suspended on a      *)
(* promise that settles without I/O is resumed from the microtask queue,   *)
(* which the runtime drains before it delivers any I/O completion.         *)
(*                                                                         *)
(* The search, grep and the context expander are functions of the files    *)
(* and of the index: they are computed on strings, as the source computes  *)
(* them, and applied by calls made on the tools directly.                  *)
(***************************************************************************)
EXTENDS Integers, Sequences, FiniteSets, TLC

\* ---------------------------------------------------------------- bounds
MaxChats == 2       \* chat() calls in flight at once
MaxBatch == 2       \* tool-call requests in one model reply
NumAgents == 2      \* CodeSearchAgent instances sharing the tools
MaxTurns == 8       \* turns appended to the histories, all agents together
MaxLines == 2000    \* lines of the longest text given to the chunker

\* ------------------------------------------------------ program constants
maxChunkSize == 1000
overlap == 50

Calls == 1..MaxChats
Agents == 1..NumAgents

\* The code files a root directory may hold, as paths relative to it and in
\* the order glob enumerates them.  The name of the last one holds a colon,
\* which a file name may hold on POSIX systems.
AllFiles == <<"a.ts", "b.ts", "lib:c.ts">>

\* The files of the directory the chat() calls index
FileSet == {AllFiles[1], AllFiles[2]}

\* The content of a file: whether it is the empty string, the number of
\* newline characters in it, and its leading lines; every line after these
\* is the line "x".
EmptyText == [empty |-> TRUE, newlines |-> 0, lines |-> <<"">>]

\* A text of L >= 1 lines, separated by newlines, each the line "x"
Lines(L) == [empty |-> FALSE, newlines |-> L - 1, lines |-> <<>>]

\* The text that splits at its newlines into the lines ls
Text(ls) == [empty |-> ls = <<"">>, newlines |-> Len(ls) - 1, lines |-> ls]

\* Tool names a first reply may request: a declared operation, which fails
\* on an unreadable file, and a name outside the switch of executeToolCall.
RequestedNames == <<"readFile", "deleteFile">>

VARIABLES
    readable,     \* files fs.readFile can read (the filesystem, an input)
    content,      \* what fs.readFile yields for each file
    codeChunks,   \* FileSystemTools.codeChunks
    embeddings,   \* FileSystemTools.embeddings: keys in insertion order
    published,    \* the index as it was when the last build completed
    history,      \* CodeSearchAgent.history, per agent
    owner,        \* for each turn of a history, the call that pushed it
    isIndexed,    \* CodeSearchAgent.isIndexed, per agent
    agent,        \* the agent each chat() call was made on
    method,       \* the method of the agent each call is a call of
    execution,    \* executePlan: the steps, the step awaited and the output
    pc,           \* the await each chat() call is suspended at
    bfile,        \* indexCodebase: position in codeFiles of the call's build
    bchunk,       \* indexCodebase: position in the chunks of the file
    inv,          \* functionCalls of the call with the state of each one
    queries,      \* number of generateContent calls the call has made
    threw,        \* a generateContent call of the call has thrown
    ret,          \* how the chat() call ended
    toolCall,     \* the latest call made on the tools directly: its inputs
    toolResult    \* what that call returned

vars == <<readable, content, codeChunks, embeddings, published, history, owner,
          isIndexed, agent, method, execution, pc, bfile, bchunk, inv, queries,
          threw, ret, toolCall, toolResult>>

indexVars == <<codeChunks, embeddings, published>>
buildVars == <<bfile, bchunk>>
toolVars == <<toolCall, toolResult>>

\* The code files the glob of indexCodebase enumerates: the files of the
\* directory, in enumeration order
codeFiles == SelectSeq(AllFiles, LAMBDA f : f \in DOMAIN content)

\* ------------------------------------------------------------- chunker
Min(a, b) == IF a < b THEN a ELSE b

RECURSIVE ChunksFrom(_, _, _)
ChunksFrom(filePath, n, i) ==
    IF i < n
    THEN <<[filePath |-> filePath, startLine |-> i + 1,
            endLine |-> Min(i + maxChunkSize, n)]>>
         \o ChunksFrom(filePath, n, i + (maxChunkSize - overlap))
    ELSE <<>>

\* content.split('\n').length: one more than the newlines, so the empty
\* string splits into one (empty) line
SplitLength(text) == text.newlines + 1

\* splitCodeIntoChunks stepping by maxChunkSize + overlap
splitCodeIntoChunks_stepOver(filePath, text) ==
    LET n == SplitLength(text)
        step == maxChunkSize + overlap
    IN [k \in 1..((n + step - 1) \div step) |->
          [filePath |-> filePath, startLine |-> step * (k - 1) + 1,
           endLine |-> Min(step * (k - 1) + maxChunkSize, n)]]

\* splitCodeIntoChunks: the loop over the lines of the content
splitCodeIntoChunks(filePath, text) == ChunksFrom(filePath, SplitLength(text), 0)

ChunkKey(chunk) == <<chunk.filePath, chunk.startLine>>

\* Map.set: a new key goes last, an existing key keeps its place
MapSet(keys, k) ==
    IF \E i \in 1..Len(keys) : keys[i] = k THEN keys ELSE Append(keys, k)

Index == [chunks |-> codeChunks, vectors |-> embeddings]


\* Whether the index is the one the last completed build left
Whole == IF Index = published THEN "whole" ELSE "partial"

\* ------------------------------------------------------ turns and parts
TextPart(text) ==
    [type |-> "text", name |-> "", key |-> "", value |-> text]

FunctionCall(name) ==
    [type |-> "functionCall", name |-> name, key |-> "", value |-> ""]

InstructionTurn == [role |-> "user", parts |-> <<TextPart("systemPrompt")>>]

UserTurn == [role |-> "user", parts |-> <<TextPart("input")>>]

\* A reply of generateContent: no candidate content, or content with parts
NoContent == [content |-> FALSE, parts |-> <<>>]

\* The batches of requests of a first reply: up to MaxBatch requests that
\* take the two names in turn, starting with either
CallSeqs ==
    {[i \in 1..n |-> FunctionCall(RequestedNames[((i + k) % 2) + 1])] :
        n \in 1..MaxBatch, k \in 0..1}

Content(parts) == [content |-> TRUE, parts |-> parts]

\* Replies to the first query of a turn
Replies ==
    {NoContent} \cup {Content(p) : p \in {<<>>, <<TextPart("answer")>>} \cup CallSeqs}

\* Replies to the re-query: the source does not look at their function
\* calls, so one reply with a call stands for all of them
FinalReplies ==
    {NoContent, Content(<<TextPart("answer")>>),
     Content(<<FunctionCall("searchCodebase")>>)}

\* Replies drawn when chat() calls overlap
OverlapReplies ==
    {Content(<<TextPart("answer")>>), Content(<<FunctionCall("searchCodebase")>>)}

\* parts.filter(part => !!part.functionCall).map(part => part.functionCall)
RECURSIVE FunctionCallsOf(_)
FunctionCallsOf(parts) ==
    IF parts = <<>> THEN <<>>
    ELSE (IF Head(parts).type = "functionCall" THEN <<Head(parts)>> ELSE <<>>)
         \o FunctionCallsOf(Tail(parts))

\* parts.filter(p => p.text).map(p => p.text).join(''): "" without a text
\* part; a reply holds at most one text part here, so the join is that part
RECURSIVE TextOf(_)
TextOf(parts) ==
    IF parts = <<>> THEN ""
    ELSE IF Head(parts).type = "text" /\ Head(parts).value # ""
         THEN Head(parts).value
         ELSE TextOf(Tail(parts))

Returned(text) == [kind |-> "returned", value |-> text]

\* No call has been made on the tools directly since the files or the
\* index last changed
NoCall == [name |-> "-"]
Pending == [kind |-> "pending", value |-> ""]

\* ------------------------------------------------------ executeToolCall
\* The names the switch of executeToolCall has a case for
HandledNames ==
    {"readFile", "listDirectory", "searchFile", "grep", "searchCodebase",
     "getFileInfo"}

\* executeToolCall without the default case: the switch falls through and
\* the call resolves with undefined
executeToolCall_noDefault(name) ==
    CASE name = "readFile" ->
            IF codeFiles[1] \in readable
            THEN [ok |-> TRUE, value |-> "content"]
            ELSE [ok |-> FALSE, value |-> "ENOENT"]
      [] name \in HandledNames \ {"readFile"} ->
            [ok |-> TRUE, value |-> "results"]
      [] OTHER -> [ok |-> TRUE, value |-> "undefined"]

\* The outcome of executeToolCall for a tool name: the switch of the
\* source; readFile is asked for the first code file.  ok is FALSE when
\* the call throws, and value is then the message of the error.
executeToolCall(name) ==
    CASE name = "readFile" ->
            IF codeFiles[1] \in readable
            THEN [ok |-> TRUE, value |-> "content"]
            ELSE [ok |-> FALSE, value |-> "ENOENT"]
      [] name \in HandledNames \ {"readFile"} ->
            [ok |-> TRUE, value |-> "results"]
      [] OTHER -> [ok |-> FALSE, value |-> "Unknown tool: " \o name]

\* The part one invocation contributes to functionResponseParts: the try
\* and the catch inside the map callback
FunctionResponse(name, out) ==
    [type |-> "functionResponse", name |-> name,
     key |-> IF out.ok THEN "result" ELSE "error", value |-> out.value]

NoOutcome == [ok |-> FALSE, value |-> ""]

\* The synchronous prefix of an invocation, run when Promise.all maps the
\* calls: searchCodebase reads the index; it returns at once on an empty
\* chunk list or through fallbackSearch, and otherwise suspends at the query
\* embedding.  saw records what the latest index read of the search met.
StartInvocation(name) ==
    IF name = "searchCodebase"
    THEN IF Len(codeChunks) = 0 \/ Len(embeddings) = 0
         THEN [name |-> name, st |-> "settled", out |-> executeToolCall(name),
               saw |-> Whole]
         ELSE [name |-> name, st |-> "embedQuery", out |-> NoOutcome,
               saw |-> Whole]
    ELSE [name |-> name, st |-> "running", out |-> NoOutcome, saw |-> "-"]

\* The invocation settles: executeToolCall returns or throws, and the map
\* callback keeps either as the outcome of its part.  A searchCodebase
\* suspended at the query embedding walks the index now.
SettleInvocation(x) ==
    [name |-> x.name, st |-> "settled", out |-> executeToolCall(x.name),
     saw |-> IF x.st = "embedQuery" THEN Whole ELSE x.saw]

Settled(c) == \A i \in 1..Len(inv[c]) : inv[c][i].st = "settled"

\* executePlan has not been called
NoExecution == [pc |-> "idle", plan |-> "", steps |-> <<>>, at |-> 0, trace |-> <<>>]

\* ------------------------------------------------------------------ Init
\* The state after construction of the tools and of the agents
InitProgram ==
    /\ codeChunks = <<>>
    /\ embeddings = <<>>
    /\ published = [chunks |-> <<>>, vectors |-> <<>>]
    /\ history = [a \in Agents |-> <<InstructionTurn>>]
    /\ owner = [a \in Agents |-> <<0>>]
    /\ isIndexed = [a \in Agents |-> FALSE]
    /\ agent = [c \in Calls |-> 1]
    /\ method = [c \in Calls |-> "-"]
    /\ execution = NoExecution
    /\ pc = [c \in Calls |-> "idle"]
    /\ bfile = [c \in Calls |-> 0]
    /\ bchunk = [c \in Calls |-> 0]
    /\ inv = [c \in Calls |-> <<>>]
    /\ queries = [c \in Calls |-> 0]
    /\ threw = [c \in Calls |-> FALSE]
    /\ ret = [c \in Calls |-> Pending]
    /\ toolCall = NoCall
    /\ toolResult = NoCall

\* The texts the chunker is applied to: the empty text and every text of
\* up to MaxLines lines
ChunkTexts == {EmptyText} \cup {Lines(L) : L \in 1..MaxLines}

\* The first file holds any of the texts, and both files can be read
InitChunk ==
    /\ readable = FileSet
    /\ content \in [FileSet -> ChunkTexts]
    /\ content[AllFiles[2]] = Lines(1)
    /\ InitProgram

\* File contents of the index builds: an empty file, a file of one line and
\* a file of three chunks
IndexTexts == {EmptyText, Lines(1), Lines(2000)}

\* Each file holds one of the texts and is readable or not
InitIndex ==
    /\ readable \in SUBSET FileSet
    /\ content \in [FileSet -> IndexTexts]
    /\ InitProgram

\* A file of two chunks, readable or not, and a readable file of one line
Init ==
    /\ readable \in {FileSet, FileSet \ {AllFiles[1]}}
    /\ content = [f \in FileSet |-> IF f = AllFiles[1] THEN Lines(1001) ELSE Lines(1)]
    /\ InitProgram

\* ----------------------------------------------------------------- chat
InFlight(c) == pc[c] \notin {"idle", "done"}

\* Turns appended so far, in all histories
Appended == LET RECURSIVE Sum(_)
                Sum(a) == IF a = 0 THEN 0 ELSE (Len(history[a]) - 1) + Sum(a - 1)
            IN Sum(NumAgents)

\* Turns a call may still push from the await it is suspended at
Remaining(at) ==
    CASE at \in {"idle", "done"} -> 0
      [] at = "model2" -> 1
      [] at = "tools" -> 2
      [] at = "model1" -> 3
      [] OTHER -> 4

\* Turns the calls in flight may still push
Reserved == LET RECURSIVE Sum(_)
                Sum(c) == IF c = 0 THEN 0 ELSE Remaining(pc[c]) + Sum(c - 1)
            IN Sum(MaxChats)

\* this.history.push(turn) by call c
Push(c, turn) ==
    /\ history' = [history EXCEPT ![agent[c]] = Append(@, turn)]
    /\ owner' = [owner EXCEPT ![agent[c]] = Append(@, c)]

\* chat(userInput) is called on agent a and runs to the await of
\* resolveContextFiles, in the frame c of the call.
BeginChat(c, a) ==
    /\ Appended + Reserved + 4 <= MaxTurns
    /\ agent' = [agent EXCEPT ![c] = a]
    /\ method' = [method EXCEPT ![c] = "chat"]
    /\ pc' = [pc EXCEPT ![c] = "resolve"]
    /\ inv' = [inv EXCEPT ![c] = <<>>]
    /\ queries' = [queries EXCEPT ![c] = 0]
    /\ threw' = [threw EXCEPT ![c] = FALSE]
    /\ ret' = [ret EXCEPT ![c] = Pending]
    /\ UNCHANGED <<readable, content, toolVars, execution, indexVars, history, owner, isIndexed, buildVars>>

\* chat() called when no other chat() call is in flight, as src/main.ts
\* calls it (each call is awaited before the next prompt).  The frame of
\* the call that returned is gone; the new call takes the first frame.
ChatStart(c, a) ==
    /\ c = 1
    /\ \A d \in Calls : ~InFlight(d)
    /\ BeginChat(c, a)

\* chat() called at any time, also while another chat() call is suspended
\* at an await: chat has no guard, so the call proceeds like any other.
\* Every call has a frame of its own, in the order the calls are made.
ChatOverlap(c, a) ==
    /\ pc[c] = "idle"
    /\ \A d \in Calls : d < c => pc[d] # "idle"
    /\ BeginChat(c, a)

\* generateContent is called with the history as contents and awaited; the
\* call is then suspended at the given await.
SendQuery(c, at) ==
    /\ queries' = [queries EXCEPT ![c] = @ + 1]
    /\ pc' = [pc EXCEPT ![c] = at]

\* ResolveDone starting the index build whatever isIndexed holds
ResolveDone_alwaysBuild(c) ==
    /\ pc[c] = "resolve"
    /\ Push(c, UserTurn)
    /\ pc' = [pc EXCEPT ![c] = "glob"]
    /\ UNCHANGED queries
    /\ UNCHANGED <<readable, content, toolVars, method, execution, indexVars, isIndexed, agent, buildVars,
                   inv, threw, ret>>

\* resolveContextFiles has returned: the user turn is pushed, then either
\* the index build starts (to the await of glob) or the model is queried.
ResolveDone(c) ==
    /\ pc[c] = "resolve"
    /\ Push(c, UserTurn)
    /\ IF ~isIndexed[agent[c]]
       THEN /\ pc' = [pc EXCEPT ![c] = "glob"]
            /\ UNCHANGED queries
       ELSE SendQuery(c, "model1")
    /\ UNCHANGED <<readable, content, toolVars, method, execution, indexVars, isIndexed, agent, buildVars,
                   inv, threw, ret>>

\* -------------------------------------------------------- indexCodebase
\* The loop over codeFiles moves to the next file, or the build returns.
NextFile(c) ==
    IF bfile[c] < Len(codeFiles)
    THEN /\ bfile' = [bfile EXCEPT ![c] = @ + 1]
         /\ bchunk' = [bchunk EXCEPT ![c] = 0]
         /\ pc' = [pc EXCEPT ![c] = "read"]
         /\ UNCHANGED published
    ELSE /\ bfile' = [bfile EXCEPT ![c] = 0]
         /\ bchunk' = [bchunk EXCEPT ![c] = 0]
         /\ pc' = [pc EXCEPT ![c] = "indexOk"]
         /\ published' = [chunks |-> codeChunks', vectors |-> embeddings']

\* GlobDone emptying the chunk list only
GlobDone_keepVectors(c, ok) ==
    /\ pc[c] = "glob"
    /\ IF ok
       THEN /\ codeChunks' = <<>>
            /\ embeddings' = embeddings
            /\ NextFile(c)
       ELSE /\ pc' = [pc EXCEPT ![c] = "indexErr"]
            /\ UNCHANGED <<indexVars, buildVars>>
    /\ UNCHANGED <<readable, content, toolVars, method, execution, history, owner, isIndexed, agent, inv, queries, threw, ret>>

\* GlobDone leaving the index of the earlier build in place
GlobDone_keepIndex(c, ok) ==
    /\ pc[c] = "glob"
    /\ IF ok
       THEN /\ codeChunks' = codeChunks
            /\ embeddings' = embeddings
            /\ NextFile(c)
       ELSE /\ pc' = [pc EXCEPT ![c] = "indexErr"]
            /\ UNCHANGED <<indexVars, buildVars>>
    /\ UNCHANGED <<readable, content, toolVars, method, execution, history, owner, isIndexed, agent, inv, queries, threw, ret>>

\* GlobDone emptying the index before it looks at the outcome of glob
GlobDone_clearFirst(c, ok) ==
    /\ pc[c] = "glob"
    /\ codeChunks' = <<>>
    /\ embeddings' = <<>>
    /\ IF ok
       THEN NextFile(c)
       ELSE /\ pc' = [pc EXCEPT ![c] = "indexErr"]
            /\ UNCHANGED <<published, buildVars>>
    /\ UNCHANGED <<readable, content, toolVars, method, execution, history, owner, isIndexed, agent, inv, queries, threw, ret>>

\* glob has settled.  On failure indexCodebase rethrows; on success it
\* empties the index in place and awaits the read of the first file.
GlobDone(c, ok) ==
    /\ pc[c] = "glob"
    /\ IF ok
       THEN /\ codeChunks' = <<>>
            /\ embeddings' = <<>>
            /\ NextFile(c)
       ELSE /\ pc' = [pc EXCEPT ![c] = "indexErr"]
            /\ UNCHANGED <<indexVars, buildVars>>
    /\ UNCHANGED <<readable, content, toolVars, method, execution, history, owner, isIndexed, agent, inv, queries, threw, ret>>

\* The chunks of the file the build of call c is at
FileChunks(c) ==
    splitCodeIntoChunks(codeFiles[bfile[c]], content[codeFiles[bfile[c]]])

\* ReadDone without the try/catch around the read of a file: the failure
\* reaches the outer catch, which rethrows it
ReadDone_abort(c) ==
    /\ pc[c] = "read"
    /\ IF codeFiles[bfile[c]] \in readable /\ FileChunks(c) # <<>>
       THEN /\ codeChunks' = Append(codeChunks, FileChunks(c)[1])
            /\ bchunk' = [bchunk EXCEPT ![c] = 1]
            /\ pc' = [pc EXCEPT ![c] = "embed"]
            /\ UNCHANGED <<embeddings, published, bfile>>
       ELSE IF codeFiles[bfile[c]] \in readable
            THEN /\ UNCHANGED <<codeChunks, embeddings>>
                 /\ NextFile(c)
            ELSE /\ pc' = [pc EXCEPT ![c] = "indexErr"]
                 /\ bfile' = [bfile EXCEPT ![c] = 0]
                 /\ UNCHANGED <<indexVars, bchunk>>
    /\ UNCHANGED <<readable, content, toolVars, method, execution, history, owner, isIndexed, agent, inv, queries, threw, ret>>

\* fs.readFile has settled.  A readable file is chunked, its first chunk is
\* pushed and its embedding awaited; an unreadable one is skipped.
ReadDone(c) ==
    /\ pc[c] = "read"
    /\ IF codeFiles[bfile[c]] \in readable /\ FileChunks(c) # <<>>
       THEN /\ codeChunks' = Append(codeChunks, FileChunks(c)[1])
            /\ bchunk' = [bchunk EXCEPT ![c] = 1]
            /\ pc' = [pc EXCEPT ![c] = "embed"]
            /\ UNCHANGED <<embeddings, published, bfile>>
       ELSE /\ UNCHANGED <<codeChunks, embeddings>>
            /\ NextFile(c)
    /\ UNCHANGED <<readable, content, toolVars, method, execution, history, owner, isIndexed, agent, inv, queries, threw, ret>>

\* createEmbedding has settled: the vector is registered under the key of
\* the chunk, then the next chunk is pushed or the next file is read.
EmbedDone(c) ==
    /\ pc[c] = "embed"
    /\ embeddings' = MapSet(embeddings, ChunkKey(FileChunks(c)[bchunk[c]]))
    /\ IF bchunk[c] < Len(FileChunks(c))
       THEN /\ codeChunks' = Append(codeChunks, FileChunks(c)[bchunk[c] + 1])
            /\ bchunk' = [bchunk EXCEPT ![c] = @ + 1]
            /\ UNCHANGED <<published, bfile, pc>>
       ELSE /\ UNCHANGED codeChunks
            /\ NextFile(c)
    /\ UNCHANGED <<readable, content, toolVars, method, execution, history, owner, isIndexed, agent, inv, queries, threw, ret>>

\* IndexReturn without the try/catch around tools.indexCodebase: a failed
\* build ends the call
IndexReturn_rethrow(c) ==
    /\ method[c] = "chat"
    /\ pc[c] \in {"indexOk", "indexErr"}
    /\ IF pc[c] = "indexOk"
       THEN /\ isIndexed' = [isIndexed EXCEPT ![agent[c]] = TRUE]
            /\ SendQuery(c, "model1")
            /\ UNCHANGED ret
       ELSE /\ pc' = [pc EXCEPT ![c] = "done"]
            /\ ret' = [ret EXCEPT ![c] = [kind |-> "thrown", value |-> "glob"]]
            /\ UNCHANGED <<isIndexed, queries>>
    /\ UNCHANGED <<readable, content, toolVars, method, execution, indexVars, history, owner, agent,
                   buildVars, inv, threw>>

\* chat resumes after tools.indexCodebase: isIndexed is set when the build
\* succeeded, the failure is logged otherwise; the model is queried.
IndexReturn(c) ==
    /\ method[c] = "chat"
    /\ pc[c] \in {"indexOk", "indexErr"}
    /\ isIndexed' = [isIndexed EXCEPT ![agent[c]] = (pc[c] = "indexOk") \/ @]
    /\ SendQuery(c, "model1")
    /\ UNCHANGED <<readable, content, toolVars, method, execution, indexVars, history, owner, agent, buildVars,
                   inv, threw, ret>>

\* --------------------------------------------- generateResponseWithTools
ModelTurn(reply) == [role |-> "model", parts |-> reply.parts]

\* Model1Reply pushing the content before it checks that there is one
Model1Reply_pushFirst(c, reply) ==
    /\ pc[c] = "model1"
    /\ IF ~reply.content
       THEN /\ ret' = [ret EXCEPT ![c] =
                         Returned("I am sorry, but I could not process your request.")]
            /\ pc' = [pc EXCEPT ![c] = "done"]
            /\ Push(c, ModelTurn(reply))
            /\ UNCHANGED inv
       ELSE /\ Push(c, ModelTurn(reply))
            /\ LET functionCalls == FunctionCallsOf(reply.parts) IN
               IF functionCalls = <<>>
               THEN /\ ret' = [ret EXCEPT ![c] =
                                 Returned(IF TextOf(reply.parts) = ""
                                          THEN "I don't have a specific response for that."
                                          ELSE TextOf(reply.parts))]
                    /\ pc' = [pc EXCEPT ![c] = "done"]
                    /\ UNCHANGED inv
               ELSE /\ inv' = [inv EXCEPT ![c] =
                                 [i \in 1..Len(functionCalls) |->
                                    StartInvocation(functionCalls[i].name)]]
                    /\ pc' = [pc EXCEPT ![c] = "tools"]
                    /\ UNCHANGED ret
    /\ UNCHANGED <<readable, content, toolVars, method, execution, indexVars, isIndexed, agent, buildVars, queries, threw>>

\* Model1Reply without the early return for a reply that holds no function
\* call
Model1Reply_requery(c, reply) ==
    /\ pc[c] = "model1"
    /\ IF ~reply.content
       THEN /\ ret' = [ret EXCEPT ![c] =
                         Returned("I am sorry, but I could not process your request.")]
            /\ pc' = [pc EXCEPT ![c] = "done"]
            /\ UNCHANGED <<history, owner, inv>>
       ELSE /\ Push(c, ModelTurn(reply))
            /\ LET functionCalls == FunctionCallsOf(reply.parts) IN
               /\ inv' = [inv EXCEPT ![c] =
                            [i \in 1..Len(functionCalls) |->
                               StartInvocation(functionCalls[i].name)]]
               /\ pc' = [pc EXCEPT ![c] = "tools"]
               /\ UNCHANGED ret
    /\ UNCHANGED <<readable, content, toolVars, method, execution, indexVars, isIndexed, agent, buildVars, queries, threw>>

\* The first generateContent call has resolved with reply.  Without
\* candidate content the canned message is returned.  Otherwise the content
\* is pushed; without function calls its text is returned, and with
\* function calls Promise.all starts every invocation.
Model1Reply(c, reply) ==
    /\ pc[c] = "model1"
    /\ IF ~reply.content
       THEN /\ ret' = [ret EXCEPT ![c] =
                         Returned("I am sorry, but I could not process your request.")]
            /\ pc' = [pc EXCEPT ![c] = "done"]
            /\ UNCHANGED <<history, owner, inv>>
       ELSE /\ Push(c, ModelTurn(reply))
            /\ LET functionCalls == FunctionCallsOf(reply.parts) IN
               IF functionCalls = <<>>
               THEN /\ ret' = [ret EXCEPT ![c] =
                                 Returned(IF TextOf(reply.parts) = ""
                                          THEN "I don't have a specific response for that."
                                          ELSE TextOf(reply.parts))]
                    /\ pc' = [pc EXCEPT ![c] = "done"]
                    /\ UNCHANGED inv
               ELSE /\ inv' = [inv EXCEPT ![c] =
                                 [i \in 1..Len(functionCalls) |->
                                    StartInvocation(functionCalls[i].name)]]
                    /\ pc' = [pc EXCEPT ![c] = "tools"]
                    /\ UNCHANGED ret
    /\ UNCHANGED <<readable, content, toolVars, method, execution, indexVars, isIndexed, agent, buildVars, queries, threw>>

\* ToolSettle without the try/catch of the map callback: a throwing
\* invocation rejects Promise.all and the outer catch ends the call.
ToolSettle_noCatch(c, i) ==
    /\ pc[c] = "tools"
    /\ i \in 1..Len(inv[c])
    /\ inv[c][i].st # "settled"
    /\ inv' = [inv EXCEPT ![c][i] = SettleInvocation(@)]
    /\ IF executeToolCall(inv[c][i].name).ok
       THEN UNCHANGED <<pc, ret>>
       ELSE /\ pc' = [pc EXCEPT ![c] = "done"]
            /\ ret' = [ret EXCEPT ![c] = Returned("I encountered an error")]
    /\ UNCHANGED <<readable, content, toolVars, method, execution, indexVars, history, owner, isIndexed, agent,
                   buildVars, queries, threw>>

\* ToolSettle pushing the response of each invocation as it settles
ToolSettle_pushEach(c, i) ==
    /\ pc[c] = "tools"
    /\ i \in 1..Len(inv[c])
    /\ inv[c][i].st # "settled"
    /\ inv' = [inv EXCEPT ![c][i] = SettleInvocation(@)]
    /\ Push(c, [role |-> "user",
                parts |-> <<FunctionResponse(inv[c][i].name,
                                             executeToolCall(inv[c][i].name))>>])
    /\ UNCHANGED <<readable, content, toolVars, method, execution, indexVars, isIndexed, agent, pc, buildVars,
                   queries, threw, ret>>

\* Invocation i of the batch settles, in any order among the batch.
ToolSettle(c, i) ==
    /\ pc[c] = "tools"
    /\ i \in 1..Len(inv[c])
    /\ inv[c][i].st # "settled"
    /\ inv' = [inv EXCEPT ![c][i] = SettleInvocation(@)]
    /\ UNCHANGED <<readable, content, toolVars, method, execution, indexVars, history, owner, isIndexed, agent, pc,
                   buildVars, queries, threw, ret>>

\* ResponseParts keeping only the invocations that succeeded
ResponseParts_dropFailed(c) ==
    LET ok == SelectSeq(inv[c], LAMBDA x : x.out.ok)
    IN [i \in 1..Len(ok) |-> FunctionResponse(ok[i].name, ok[i].out)]

\* functionResponseParts, in the order of functionCalls
ResponseParts(c) ==
    [i \in 1..Len(inv[c]) |-> FunctionResponse(inv[c][i].name, inv[c][i].out)]

\* Promise.all has resolved: the parts are pushed as one user turn and the
\* model is queried again.
ToolsJoin(c) ==
    /\ pc[c] = "tools"
    /\ Settled(c)
    /\ Push(c, [role |-> "user", parts |-> ResponseParts(c)])
    /\ SendQuery(c, "model2")
    /\ UNCHANGED <<readable, content, toolVars, method, execution, indexVars, isIndexed, agent, buildVars,
                   inv, threw, ret>>

\* Model2Reply dispatching on the function calls of the second reply as on
\* those of the first one
Model2Reply_chase(c, reply) ==
    /\ pc[c] = "model2"
    /\ reply.content
    /\ Push(c, ModelTurn(reply))
    /\ IF FunctionCallsOf(reply.parts) = <<>>
       THEN /\ ret' = [ret EXCEPT ![c] = Returned(TextOf(reply.parts))]
            /\ pc' = [pc EXCEPT ![c] = "done"]
            /\ UNCHANGED inv
       ELSE /\ inv' = [inv EXCEPT ![c] =
                         [i \in 1..Len(FunctionCallsOf(reply.parts)) |->
                            StartInvocation(FunctionCallsOf(reply.parts)[i].name)]]
            /\ pc' = [pc EXCEPT ![c] = "tools"]
            /\ UNCHANGED ret
    /\ UNCHANGED <<readable, content, toolVars, method, execution, indexVars, isIndexed, agent, buildVars,
                   queries, threw>>

\* The second generateContent call has resolved with reply: its content is
\* pushed and its text returned, whatever else it holds.
Model2Reply(c, reply) ==
    /\ pc[c] = "model2"
    /\ IF reply.content
       THEN /\ Push(c, ModelTurn(reply))
            /\ ret' = [ret EXCEPT ![c] =
                         Returned(IF TextOf(reply.parts) = ""
                                  THEN "No final text response."
                                  ELSE TextOf(reply.parts))]
       ELSE /\ ret' = [ret EXCEPT ![c] =
                         Returned("I was unable to generate a final response.")]
            /\ UNCHANGED <<history, owner>>
    /\ pc' = [pc EXCEPT ![c] = "done"]
    /\ UNCHANGED <<readable, content, toolVars, method, execution, indexVars, isIndexed, agent, buildVars,
                   inv, queries, threw>>

\* ModelThrows with a catch that rethrows
ModelThrows_rethrow(c) ==
    /\ pc[c] \in {"model1", "model2"}
    /\ threw' = [threw EXCEPT ![c] = TRUE]
    /\ ret' = [ret EXCEPT ![c] = [kind |-> "thrown", value |-> "service error"]]
    /\ pc' = [pc EXCEPT ![c] = "done"]
    /\ UNCHANGED <<readable, content, toolVars, method, execution, indexVars, history, owner, isIndexed, agent,
                   buildVars, inv, queries>>

\* ModelThrows with a catch that takes the last turn back
ModelThrows_rollback(c) ==
    /\ pc[c] \in {"model1", "model2"}
    /\ threw' = [threw EXCEPT ![c] = TRUE]
    /\ ret' = [ret EXCEPT ![c] = Returned("I encountered an error")]
    /\ pc' = [pc EXCEPT ![c] = "done"]
    /\ history' = [history EXCEPT ![agent[c]] = SubSeq(@, 1, Len(@) - 1)]
    /\ owner' = [owner EXCEPT ![agent[c]] = SubSeq(@, 1, Len(@) - 1)]
    /\ UNCHANGED <<readable, content, toolVars, method, execution, indexVars, isIndexed, agent, buildVars, inv,
                   queries>>

\* A generateContent call has thrown: the catch of
\* generateResponseWithTools logs the error and returns a message.
ModelThrows(c) ==
    /\ pc[c] \in {"model1", "model2"}
    /\ threw' = [threw EXCEPT ![c] = TRUE]
    /\ ret' = [ret EXCEPT ![c] = Returned("I encountered an error")]
    /\ pc' = [pc EXCEPT ![c] = "done"]
    /\ UNCHANGED <<readable, content, toolVars, method, execution, indexVars, history, owner, isIndexed, agent,
                   buildVars, inv, queries>>

\* clearHistory() as history.slice(1)
ClearHistory_dropFirst(a) ==
    /\ history' = [history EXCEPT ![a] = SubSeq(@, 2, Len(@))]
    /\ owner' = [owner EXCEPT ![a] = SubSeq(@, 2, Len(@))]
    /\ UNCHANGED <<readable, content, toolVars, method, execution, indexVars, isIndexed, agent, pc, buildVars,
                   inv, queries, threw, ret>>

\* clearHistory(): history.slice(0, 1)
ClearHistory(a) ==
    /\ history' = [history EXCEPT ![a] = SubSeq(@, 1, 1)]
    /\ owner' = [owner EXCEPT ![a] = SubSeq(@, 1, 1)]
    /\ UNCHANGED <<readable, content, toolVars, method, execution, indexVars, isIndexed, agent, pc, buildVars,
                   inv, queries, threw, ret>>

\* --------------------------------------------------------------- strings
\* Strings are sequences of characters: Len, SubSeq and \o apply to them.
CharAt(s, i) == SubSeq(s, i, i)

LowerCase == "abcdefghijklmnopqrstuvwxyz"
UpperCase == "ABCDEFGHIJKLMNOPQRSTUVWXYZ"
Digits == "0123456789"

\* The position of the character ch in the string s, 0 when it is not there
PositionIn(ch, s) ==
    IF \E i \in 1..Len(s) : CharAt(s, i) = ch
    THEN CHOOSE i \in 1..Len(s) : CharAt(s, i) = ch
    ELSE 0

\* String.prototype.charCodeAt, for the characters of the texts
charCodeAt(ch) ==
    CASE PositionIn(ch, LowerCase) > 0 -> 96 + PositionIn(ch, LowerCase)
      [] PositionIn(ch, UpperCase) > 0 -> 64 + PositionIn(ch, UpperCase)
      [] PositionIn(ch, Digits) > 0 -> 47 + PositionIn(ch, Digits)
      [] ch = "\n" -> 10
      [] ch = " " -> 32
      [] ch = "," -> 44
      [] ch = "." -> 46
      [] ch = ":" -> 58
      [] ch = "@" -> 64

\* String.prototype.toLowerCase
RECURSIVE toLowerCase(_)
toLowerCase(s) ==
    IF s = "" THEN ""
    ELSE (IF PositionIn(Head(s), UpperCase) > 0
          THEN CharAt(LowerCase, PositionIn(Head(s), UpperCase))
          ELSE Head(s))
         \o toLowerCase(Tail(s))

\* The class \s of a regular expression, for the characters of the texts
IsSpace(ch) == ch \in {" ", "\n"}

\* The first position from i on whose character is a space (or is not one,
\* when space is FALSE); Len(s) + 1 when there is none
RECURSIVE Scan(_, _, _)
Scan(s, i, space) ==
    IF i > Len(s) \/ IsSpace(CharAt(s, i)) = space THEN i
    ELSE Scan(s, i + 1, space)

\* String.prototype.trim
RECURSIVE trim(_)
trim(s) ==
    IF s = "" THEN ""
    ELSE IF IsSpace(Head(s)) THEN trim(Tail(s))
    ELSE IF IsSpace(CharAt(s, Len(s))) THEN trim(SubSeq(s, 1, Len(s) - 1))
    ELSE s

\* s.split(/\s+/): the pieces between the runs of white space; a run at
\* either end leaves an empty piece there, and "" splits into <<"">>
RECURSIVE SplitSpaces(_)
SplitSpaces(s) ==
    LET i == Scan(s, 1, TRUE)
    IN IF i > Len(s) THEN <<s>>
       ELSE <<SubSeq(s, 1, i - 1)>>
            \o SplitSpaces(SubSeq(s, Scan(s, i, FALSE), Len(s)))

\* s.split(sep) for a separator of one character
RECURSIVE Split(_, _)
Split(s, sep) ==
    LET i == PositionIn(sep, s)
    IN IF i = 0 THEN <<s>>
       ELSE <<SubSeq(s, 1, i - 1)>> \o Split(SubSeq(s, i + 1, Len(s)), sep)

\* lines.join('\n')
RECURSIVE Join(_)
Join(ls) ==
    IF Len(ls) = 0 THEN ""
    ELSE IF Len(ls) = 1 THEN ls[1]
    ELSE ls[1] \o "\n" \o Join(Tail(ls))

\* Line i of a text
LineAt(text, i) == IF i <= Len(text.lines) THEN text.lines[i] ELSE "x"

\* What fs.readFile yields for the file: its lines joined by newlines
FileString(f) ==
    Join([i \in 1..(content[f].newlines + 1) |-> LineAt(content[f], i)])

\* chunk.content: lines.slice(i, i + maxChunkSize).join('\n'), taken from the
\* file as it is (the content of a file does not change in a behaviour)
ChunkContent(chunk) ==
    Join([i \in 1..(chunk.endLine - chunk.startLine + 1) |->
            LineAt(content[chunk.filePath], chunk.startLine + i - 1)])

\* parseInt(s): the number the leading digits of s denote; NaN, which is
\* equal to no number, is -1 here
RECURSIVE ParseDigits(_, _)
ParseDigits(s, acc) ==
    IF s = "" \/ PositionIn(Head(s), Digits) = 0 THEN acc
    ELSE ParseDigits(Tail(s), 10 * acc + PositionIn(Head(s), Digits) - 1)

parseInt(s) ==
    IF s = "" \/ PositionIn(Head(s), Digits) = 0 THEN -1 ELSE ParseDigits(s, 0)

\* ------------------------------------------------------------ vectorizer
EmbeddingLength == 1536

\* One step of the loop of simpleHash on a 32-bit integer:
\* hash = ((hash << 5) - hash) + char; hash = hash & hash.  The product
\* 31 * hash + char is reduced modulo 2^32 in two halves of 16 bits.
HashStep(hash, char) ==
    LET lo == 31 * (hash % 65536) + char
        hi == (31 * ((hash \div 65536) % 65536) + (lo \div 65536)) % 65536
    IN (IF hi >= 32768 THEN hi - 65536 ELSE hi) * 65536 + (lo % 65536)

RECURSIVE HashFrom(_, _)
HashFrom(str, hash) ==
    IF str = "" THEN hash
    ELSE HashFrom(Tail(str), HashStep(hash, charCodeAt(Head(str))))

\* A number of magnitude up to 2^31, which Math.abs(-2^31) reaches: the
\* magnitude is hi * 65536 + lo, and the number is negative when neg
Signed(hash) ==
    IF hash >= 0
    THEN [neg |-> FALSE, hi |-> hash \div 65536, lo |-> hash % 65536]
    ELSE LET below == -(hash + 1)
             lo == (below % 65536) + 1
         IN [neg |-> TRUE, hi |-> (below \div 65536) + (lo \div 65536),
             lo |-> lo % 65536]

\* The remainder operator of JavaScript, x % m for m in 1..32768: it has
\* the sign of x
Remainder(x, m) ==
    LET r == ((x.hi % m) * (65536 % m) + x.lo) % m
    IN IF x.neg THEN -r ELSE r

\* simpleHash returning the 32-bit hash itself
simpleHash_signed(str) == Signed(HashFrom(str, 0))

\* simpleHash: Math.abs of the 32-bit hash
simpleHash(str) == [Signed(HashFrom(str, 0)) EXCEPT !.neg = FALSE]

\* A vector of `length` components: component i is counts[i] / sqrt(norm2)
\* for i in the domain of counts, and 0 elsewhere
NoCounts == [i \in {} |-> 0]

Vector(length, counts, norm2) ==
    [length |-> length, counts |-> counts, norm2 |-> norm2]

\* embedding[index] += 1
Increment(counts, index) ==
    [i \in DOMAIN counts \cup {index} |->
        IF i \in DOMAIN counts
        THEN (IF i = index THEN counts[i] + 1 ELSE counts[i])
        ELSE 1]

\* The accumulator after words.forEach
RECURSIVE CountWords(_, _)
CountWords(words, counts) ==
    IF words = <<>> THEN counts
    ELSE CountWords(Tail(words),
                    Increment(counts,
                              Remainder(simpleHash(Head(words)), EmbeddingLength)))

\* The sum of the squares of the counts
RECURSIVE SumSquares(_, _)
SumSquares(counts, todo) ==
    IF todo = {} THEN 0
    ELSE LET i == CHOOSE j \in todo : TRUE
         IN counts[i] * counts[i] + SumSquares(counts, todo \ {i})

\* createSimpleEmbedding: the words of the lowered text are counted in the
\* buckets of their hashes and the counts divided by their norm (left as
\* they are when the norm is 0)
createSimpleEmbedding(text) ==
    LET words == SplitSpaces(toLowerCase(text))
        counts == CountWords(words, NoCounts)
        norm2 == SumSquares(counts, DOMAIN counts)
    IN IF norm2 > 0 THEN Vector(EmbeddingLength, counts, norm2)
       ELSE Vector(EmbeddingLength, NoCounts, 1)

\* The vector of `length` zeros
ZeroVector(length) == Vector(length, NoCounts, 1)

IsZero(v) == \A i \in DOMAIN v.counts : v.counts[i] = 0

\* A score: the number num / sqrt(den2), or NaN, or undefined.  Rounding of
\* the floating-point operations is left out.
Number(num, den2) == [kind |-> "number", num |-> num, den2 |-> den2]
NaN == [kind |-> "NaN", num |-> 0, den2 |-> 1]
Undefined == [kind |-> "undefined", num |-> 0, den2 |-> 1]

\* x > y on scores; FALSE when either is not a number
Greater(x, y) ==
    /\ x.kind = "number" /\ y.kind = "number"
    /\ x.num * x.num * y.den2 > y.num * y.num * x.den2

\* Sum over i of a[i] * b[i], multiplied by sqrt(a.norm2 * b.norm2)
RECURSIVE Dot(_, _, _)
Dot(a, b, todo) ==
    IF todo = {} THEN 0
    ELSE LET i == CHOOSE j \in todo : TRUE
         IN a.counts[i] * b.counts[i] + Dot(a, b, todo \ {i})

\* cosineSimilarity: 0 for vectors of different lengths, and otherwise
\* dotProduct / (Math.sqrt(normA) * Math.sqrt(normB)), which is 0 / 0 = NaN
\* when a norm is 0 (the scale factors sqrt(norm2) of a and b cancel)
cosineSimilarity(a, b) ==
    IF a.length # b.length THEN Number(0, 1)
    ELSE LET dotProduct == Dot(a, b, DOMAIN a.counts \cap DOMAIN b.counts)
             normA == SumSquares(a.counts, DOMAIN a.counts)
             normB == SumSquares(b.counts, DOMAIN b.counts)
         IN IF normA = 0 \/ normB = 0 THEN NaN
            ELSE Number(dotProduct, normA * normB)

\* --------------------------------------------------------- searchCodebase
\* `${chunk.filePath}:${chunk.startLine}`, the key as the Map holds it
KeyString(key) == key[1] \o ":" \o ToString(key[2])

\* The position in codeChunks of the first chunk that condition holds of,
\* 0 when there is none: Array.prototype.find
FindChunk(filePath, startLine) ==
    LET found == {k \in 1..Len(codeChunks) :
                     /\ codeChunks[k].filePath = filePath
                     /\ codeChunks[k].startLine = startLine}
    IN IF found = {} THEN 0 ELSE CHOOSE k \in found : \A j \in found : k <= j

\* The vector registered under the key: the embedding of the content of the
\* chunk that was pushed with it
StoredVector(key) ==
    createSimpleEmbedding(ChunkContent(codeChunks[FindChunk(key[1], key[2])]))

\* const [filePath, startLineStr] = key.split(':') and the find that
\* follows: the position of the chunk the key resolves to, 0 for none
ResolveKey(key) ==
    LET parts == Split(KeyString(key), ":")
        filePath == parts[1]
        startLine == IF Len(parts) >= 2 THEN parseInt(parts[2]) ELSE -1
    IN FindChunk(filePath, startLine)

\* The loop over this.embeddings, in the order of the Map: one entry per
\* key that resolves to a chunk
RECURSIVE Similarities(_, _)
Similarities(keys, queryEmbedding) ==
    IF keys = <<>> THEN <<>>
    ELSE (IF ResolveKey(Head(keys)) # 0
          THEN <<[chunk |-> ResolveKey(Head(keys)),
                  similarity |-> cosineSimilarity(queryEmbedding,
                                                  StoredVector(Head(keys)))]>>
          ELSE <<>>)
         \o Similarities(Tail(keys), queryEmbedding)

\* Insert putting x in front of the entries that are not greater than it
Insert_beforeEqual(sorted, x) ==
    LET ahead == {k \in 1..Len(sorted) :
                     Greater(sorted[k].similarity, x.similarity)}
        p == IF ahead = {} THEN 0
             ELSE CHOOSE k \in ahead : \A j \in ahead : j <= k
    IN SubSeq(sorted, 1, p) \o <<x>> \o SubSeq(sorted, p + 1, Len(sorted))

\* One insertion of a stable sort under the comparator
\* (a, b) => b.similarity - a.similarity: x goes behind the last entry it
\* is not greater than (a NaN difference counts as 0)
Insert(sorted, x) ==
    LET behind == {k \in 1..Len(sorted) :
                      ~Greater(x.similarity, sorted[k].similarity)}
        p == IF behind = {} THEN 0
             ELSE CHOOSE k \in behind : \A j \in behind : j <= k
    IN SubSeq(sorted, 1, p) \o <<x>> \o SubSeq(sorted, p + 1, Len(sorted))

\* similarities.sort(...): Array.prototype.sort is stable
RECURSIVE SortFrom(_, _)
SortFrom(list, sorted) ==
    IF list = <<>> THEN sorted
    ELSE SortFrom(Tail(list), Insert(sorted, Head(list)))

\* Sort leaving the similarities in the order of the Map
Sort_unsorted(list) == list

Sort(list) == SortFrom(list, <<>>)

\* list.slice(0, limit)
Slice(list, limit) ==
    IF limit >= 0 THEN SubSeq(list, 1, Min(limit, Len(list)))
    ELSE SubSeq(list, 1, Len(list) + limit)

\* A SearchResult for the chunk at position k; `by` is not in the source:
\* it records which path computed the score
SearchResult(k, score, by) ==
    [file |-> codeChunks[k].filePath,
     line |-> codeChunks[k].startLine,
     content |-> trim(Split(ChunkContent(codeChunks[k]), "\n")[1]),
     score |-> score,
     by |-> by]

\* The scores fuse.search gives, in tenths: Fuse gives a match on a key a
\* score above 0, at most 1, and lower is better
FuseScores == {2, 5}

\* What fuse.search(query) may return over the chunks: matches of distinct
\* chunks, best (lowest score) first and, at equal scores, in the order of
\* the list Fuse was given
FuseResults ==
    {r \in UNION {[1..n -> (1..Len(codeChunks)) \X FuseScores] :
                      n \in 0..Len(codeChunks)} :
        /\ \A i, j \in 1..Len(r) : i < j => r[i][1] # r[j][1]
        /\ \A i \in 1..(Len(r) - 1) :
              \/ r[i][2] < r[i + 1][2]
              \/ r[i][2] = r[i + 1][2] /\ r[i][1] < r[i + 1][1]}

\* What fuse.search(query) may return when searchCodebase calls it, and
\* nothing when the search does not get to it
FuseSearch(query) ==
    IF Len(codeChunks) > 0 /\ (Len(embeddings) = 0 \/ ~query.isString)
    THEN FuseResults
    ELSE {<<>>}

\* fallbackSearch, given what fuse.search returned
fallbackSearch(results, limit) ==
    LET top == Slice(results, limit)
    IN [i \in 1..Len(top) |->
          SearchResult(top[i][1],
                       IF top[i][2] # 0 THEN Number(10 - top[i][2], 100)
                       ELSE Undefined,
                       "fuzzy")]

\* A query the model supplies: a string, or a value that is not one (the
\* arguments of a function call are not checked against the declaration)
TextQuery(s) == [isString |-> TRUE, value |-> s]
ObjectQuery == [isString |-> FALSE, value |-> ""]

Found(path, list) == [ok |-> TRUE, path |-> path, list |-> list]
Thrown(message) == [ok |-> FALSE, path |-> "none", list |-> <<>>, message |-> message]

\* The vector path of searchCodebase
VectorSearch(queryEmbedding, limit) ==
    LET top == Slice(Sort(Similarities(embeddings, queryEmbedding)), limit)
    IN [i \in 1..Len(top) |->
          SearchResult(top[i].chunk, top[i].similarity, "cosine")]

\* searchCodebase refusing to search an index without a chunk
searchCodebase_requireIndex(query, limit, fuse) ==
    IF Len(codeChunks) = 0 THEN Thrown("Codebase not indexed")
    ELSE IF Len(embeddings) > 0
    THEN IF ~query.isString
         THEN Found("fuzzy", fallbackSearch(fuse, limit))
         ELSE Found("vector", VectorSearch(createSimpleEmbedding(query.value), limit))
    ELSE Found("fuzzy", fallbackSearch(fuse, limit))

\* searchCodebase taking the fuzzy path whatever the index holds
searchCodebase_preferFuzzy(query, limit, fuse) ==
    IF Len(codeChunks) = 0 THEN Found("none", <<>>)
    ELSE Found("fuzzy", fallbackSearch(fuse, limit))

\* searchCodebase(query, limit), fuse being what fuse.search would return.
\* createEmbedding throws on a query that is not a string (toLowerCase is
\* not a function), and the catch falls back to fallbackSearch.
searchCodebase(query, limit, fuse) ==
    IF Len(codeChunks) = 0 THEN Found("none", <<>>)
    ELSE IF Len(embeddings) > 0
    THEN IF ~query.isString
         THEN Found("fuzzy", fallbackSearch(fuse, limit))
         ELSE LET queryEmbedding == createSimpleEmbedding(query.value)
              IN IF queryEmbedding.length = 0
                 THEN Found("fuzzy", fallbackSearch(fuse, limit))
                 ELSE Found("vector", VectorSearch(queryEmbedding, limit))
    ELSE Found("fuzzy", fallbackSearch(fuse, limit))

\* ------------------------------------------------------------------ grep
\* regex.test(line) for new RegExp(searchTerm, 'gi'), the term holding no
\* special character: the search starts at regex.lastIndex; the result is
\* the new lastIndex, the end of the first match from there on, or -1 when
\* there is none (test returns false and sets lastIndex to 0)
RegexTest(searchTerm, line, lastIndex) ==
    LET n == Len(searchTerm)
        at == {p \in lastIndex..(Len(line) - n) :
                  toLowerCase(SubSeq(line, p + 1, p + n)) = toLowerCase(searchTerm)}
    IN IF at = {} THEN -1
       ELSE (CHOOSE p \in at : \A q \in at : p <= q) + n

\* The lines of a file: content.split('\n')
FileLines(f) == [i \in 1..(content[f].newlines + 1) |-> LineAt(content[f], i)]

\* The loops of grep from line i of file f on: the files in the order of
\* glob, a file that cannot be read being skipped, the lines of each file
\* in order, and one regex for all of them
RECURSIVE GrepFrom(_, _, _, _)
GrepFrom(searchTerm, f, i, lastIndex) ==
    IF f > Len(codeFiles) THEN <<>>
    ELSE IF codeFiles[f] \notin readable \/ i > Len(FileLines(codeFiles[f]))
    THEN GrepFrom(searchTerm, f + 1, 1, lastIndex)
    ELSE LET line == FileLines(codeFiles[f])[i]
             end == RegexTest(searchTerm, line, lastIndex)
         IN IF end >= 0
            THEN <<[file |-> codeFiles[f], line |-> i, content |-> trim(line)]>>
                 \o GrepFrom(searchTerm, f, i + 1, end)
            ELSE GrepFrom(searchTerm, f, i + 1, 0)

\* grep(searchTerm, rootDir, filePattern) for a pattern that the code files
\* match; ok tells whether glob succeeded (grep rethrows its failure)
grep(searchTerm, ok) ==
    IF ok THEN Found("grep", GrepFrom(searchTerm, 1, 1, 0))
    ELSE Thrown("glob")

\* --------------------------------------------------- resolveContextFiles
\* The backquote, written ~ here
Backquote == "~"

\* The characters a token may not hold: white space and the three quotes
EndsToken(ch) == IsSpace(ch) \/ ch \in {"\"", "'", Backquote}

\* The first position from i on whose character ends a token
RECURSIVE TokenEnd(_, _)
TokenEnd(s, i) ==
    IF i > Len(s) \/ EndsToken(CharAt(s, i)) THEN i ELSE TokenEnd(s, i + 1)

\* The tokens of input.matchAll: match[1] of every match of an @ followed
\* by one or more token characters, scanning from position i on
RECURSIVE MatchAll(_, _)
MatchAll(input, i) ==
    IF i > Len(input) THEN <<>>
    ELSE IF CharAt(input, i) = "@" /\ TokenEnd(input, i + 1) > i + 1
    THEN <<SubSeq(input, i + 1, TokenEnd(input, i + 1) - 1)>>
         \o MatchAll(input, TokenEnd(input, i + 1))
    ELSE MatchAll(input, i + 1)

\* tools.readFile(filePath): the content of the file, or a failure
readFile(filePath) ==
    IF filePath \in DOMAIN content /\ filePath \in readable
    THEN [ok |-> TRUE, value |-> FileString(filePath)]
    ELSE [ok |-> FALSE, value |-> "ENOENT"]

\* Three backquotes
Fence == Backquote \o Backquote \o Backquote

\* The template of contextBlock: it starts with a line break
ContextBlock(filePath, text) ==
    "\n" \o "\n\n" \o Fence \o filePath \o "\n" \o text \o "\n" \o Fence \o "\n"

\* The loop over the matches: the block of every file that could be read
RECURSIVE ContextBlocks(_)
ContextBlocks(matches) ==
    IF matches = <<>> THEN ""
    ELSE (IF readFile(Head(matches)).ok
          THEN ContextBlock(Head(matches), readFile(Head(matches)).value)
          ELSE "")
         \o ContextBlocks(Tail(matches))

\* resolveContextFiles giving up at the first token that cannot be read
resolveContextFiles_giveUp(input) ==
    LET matches == MatchAll(input, 1)
    IN IF \A k \in 1..Len(matches) : readFile(matches[k]).ok
       THEN input \o ContextBlocks(matches)
       ELSE input

\* resolveContextFiles(input)
resolveContextFiles(input) ==
    LET matches == MatchAll(input, 1)
    IN IF Len(matches) = 0 THEN input
       ELSE input \o ContextBlocks(matches)

\* ------------------------------------------- calls made on the tools
\* The calls below are made on the FileSystemTools (and on the agent, for
\* resolveContextFiles) directly, one at a time, as dist/test_runner.js
\* makes them: each is awaited before the next one is made.
Idle == \A c \in Calls : ~InFlight(c)

\* tools.indexCodebase(rootDir) is called and runs to the await of glob
IndexCodebaseCall(c) ==
    /\ c = 1
    /\ Idle
    /\ pc' = [pc EXCEPT ![c] = "glob"]
    /\ toolCall' = NoCall
    /\ toolResult' = NoCall
    /\ method' = [method EXCEPT ![c] = "-"]
    /\ UNCHANGED <<readable, content, execution, indexVars, history, owner, isIndexed, agent,
                   buildVars, inv, queries, threw, ret>>

\* indexCodebase returns to its caller, or throws to it
IndexCodebaseReturn(c) ==
    /\ method[c] = "-"
    /\ pc[c] \in {"indexOk", "indexErr"}
    /\ pc' = [pc EXCEPT ![c] = "done"]
    /\ UNCHANGED <<readable, content, toolVars, method, execution, indexVars, history, owner, isIndexed,
                   agent, buildVars, inv, queries, threw, ret>>

\* agent.indexCodebase(rootDir) is called on agent a when no other call is
\* in flight, and runs to the await of glob inside tools.indexCodebase
AgentIndexCodebase(c, a) ==
    /\ c = 1
    /\ Idle
    /\ agent' = [agent EXCEPT ![c] = a]
    /\ method' = [method EXCEPT ![c] = "indexCodebase"]
    /\ pc' = [pc EXCEPT ![c] = "glob"]
    /\ ret' = [ret EXCEPT ![c] = Pending]
    /\ UNCHANGED <<readable, content, toolVars, execution, indexVars, history, owner, isIndexed,
                   buildVars, inv, queries, threw>>

\* agent.indexCodebase resumes after tools.indexCodebase: isIndexed is set
\* and the call returns, or the failure of the build is thrown to the caller
AgentIndexCodebaseReturn(c) ==
    /\ method[c] = "indexCodebase"
    /\ pc[c] \in {"indexOk", "indexErr"}
    /\ IF pc[c] = "indexOk"
       THEN /\ isIndexed' = [isIndexed EXCEPT ![agent[c]] = TRUE]
            /\ ret' = [ret EXCEPT ![c] = Returned("")]
       ELSE /\ ret' = [ret EXCEPT ![c] = [kind |-> "thrown", value |-> "glob"]]
            /\ UNCHANGED isIndexed
    /\ pc' = [pc EXCEPT ![c] = "done"]
    /\ UNCHANGED <<readable, content, toolVars, method, execution, indexVars, history, owner, agent,
                   buildVars, inv, queries, threw>>

\* The call returns result.  It changes neither the files nor the index,
\* so the calls that follow it return what they would have returned in its
\* place: one call is made from each state of the files and of the index.
ToolCall(call, result) ==
    /\ Idle
    /\ toolCall = NoCall
    /\ toolCall' = call
    /\ toolResult' = result
    /\ UNCHANGED <<readable, content, indexVars, history, owner, isIndexed, agent,
                   method, execution, pc, buildVars, inv, queries, threw, ret>>

\* tools.searchCodebase(query, limit); the embedding of the query settles
\* without I/O, so that no other step runs before the search returns
SearchCodebase(query, limit, fuse) ==
    ToolCall([name |-> "searchCodebase", query |-> query, limit |-> limit],
             searchCodebase(query, limit, fuse))

\* tools.grep(searchTerm, rootDir, filePattern); no file changes while the
\* call is in flight
Grep(searchTerm, ok) ==
    ToolCall([name |-> "grep", searchTerm |-> searchTerm], grep(searchTerm, ok))

\* agent.resolveContextFiles(input)
ResolveContextFiles(input) ==
    ToolCall([name |-> "resolveContextFiles", input |-> input],
             [ok |-> TRUE, value |-> resolveContextFiles(input)])

\* createSimpleEmbedding(text)
CreateSimpleEmbedding(text) ==
    ToolCall([name |-> "createSimpleEmbedding", text |-> text],
             createSimpleEmbedding(text))

\* cosineSimilarity(a, b)
CosineSimilarity(a, b) ==
    ToolCall([name |-> "cosineSimilarity", a |-> a, b |-> b],
             cosineSimilarity(a, b))

\* ----------------------------------------------------------- executePlan
\* String.prototype.includes
includes(s, sub) ==
    \E p \in 0..(Len(s) - Len(sub)) : SubSeq(s, p + 1, p + Len(sub)) = sub

\* s.split(sep) for a separator of one character or more
RECURSIVE SplitAt(_, _)
SplitAt(s, sep) ==
    LET n == Len(sep)
        at == {p \in 0..(Len(s) - n) : SubSeq(s, p + 1, p + n) = sep}
    IN IF at = {} THEN <<s>>
       ELSE LET p == CHOOSE q \in at : \A r \in at : q <= r
            IN <<SubSeq(s, 1, p)>> \o SplitAt(SubSeq(s, p + n + 1, Len(s)), sep)

\* The number of digits the string starts with
RECURSIVE LeadingDigits(_)
LeadingDigits(s) ==
    IF s = "" \/ PositionIn(Head(s), Digits) = 0 THEN 0
    ELSE 1 + LeadingDigits(Tail(s))

\* step.length > 0 && step.match(/^\d+\./)
IsStep(step) ==
    /\ Len(step) > 0
    /\ LeadingDigits(step) >= 1
    /\ LeadingDigits(step) < Len(step)
    /\ CharAt(step, LeadingDigits(step) + 1) = "."

\* plan.split('\n').filter(...)
PlanSteps(plan) == SelectSeq(Split(plan, "\n"), IsStep)

\* A line of output, or a command handed to exec
Output(kind, text) == [kind |-> kind, text |-> text]

\* The command awaited at step i
Awaiting(i, trace, command) ==
    [pc |-> "exec", at |-> i, trace |-> Append(trace, Output("exec", command))]

\* The loop of executePlan from step i on, up to the next await of
\* execPromise or to the return.  A step that names no folder throws a
\* TypeError at the trim of undefined, inside the try.
RECURSIVE RunFrom(_, _, _)
RunFrom(steps, i, trace) ==
    IF i > Len(steps)
    THEN [pc |-> "done", at |-> i,
          trace |-> Append(trace, Output("Execution complete!", ""))]
    ELSE LET step == steps[i]
             log == Append(trace, Output("Executing step", step))
         IN IF includes(step, "create a folder named")
            THEN IF Len(SplitAt(step, "named ")) < 2
                 THEN [pc |-> "done", at |-> i,
                       trace |-> Append(log, Output("Error executing step", step))]
                 ELSE Awaiting(i, log, "mkdir " \o trim(SplitAt(step, "named ")[2]))
            ELSE IF includes(step, "initialize a new Node.js project")
            THEN Awaiting(i, log, "npm init -y")
            ELSE IF includes(step, "install dependencies")
            THEN Awaiting(i, log, "npm install express")
            ELSE RunFrom(steps, i + 1, Append(log, Output("Skipping", step)))

\* The variables the executor leaves alone
agentVars == <<readable, content, toolVars, method, indexVars, history, owner,
               isIndexed, agent, pc, buildVars, inv, queries, threw, ret>>

\* executePlan(plan) is called, once, and runs to its first await
ExecutePlan(plan) ==
    /\ execution.pc = "idle"
    /\ LET steps == PlanSteps(plan)
           run == RunFrom(steps, 1, <<Output("Plan approved!", "")>>)
       IN execution' = [pc |-> run.pc, plan |-> plan, steps |-> steps,
                        at |-> run.at, trace |-> run.trace]
    /\ UNCHANGED agentVars

\* ExecDone carrying on with the next step after a command that failed
ExecDone_goOn(ok) ==
    /\ execution.pc = "exec"
    /\ LET step == execution.steps[execution.at]
           log == Append(execution.trace,
                         Output(IF ok THEN "Done" ELSE "Error executing step", step))
           run == RunFrom(execution.steps, execution.at + 1, log)
       IN execution' = [execution EXCEPT !.pc = run.pc, !.at = run.at,
                                         !.trace = run.trace]
    /\ UNCHANGED agentVars

\* The command of the awaited step has ended: the loop goes on after a
\* success, and executePlan returns from its catch after a failure
ExecDone(ok) ==
    /\ execution.pc = "exec"
    /\ LET step == execution.steps[execution.at]
           run == IF ok
                  THEN RunFrom(execution.steps, execution.at + 1,
                               Append(execution.trace, Output("Done", step)))
                  ELSE [pc |-> "done", at |-> execution.at,
                        trace |-> Append(execution.trace,
                                         Output("Error executing step", step))]
       IN execution' = [execution EXCEPT !.pc = run.pc, !.at = run.at,
                                         !.trace = run.trace]
    /\ UNCHANGED agentVars

\* -------------------------------------------------------------- the files
\* Between two chat() calls a file is removed or restored: fs.readFile
\* fails on it, or succeeds again.
FileChange(f) ==
    /\ \A c \in Calls : ~InFlight(c)
    /\ readable' = IF f \in readable THEN readable \ {f} ELSE readable \cup {f}
    /\ toolCall' = NoCall
    /\ toolResult' = NoCall
    /\ UNCHANGED <<content, execution, indexVars, history, owner, isIndexed, agent, method, pc,
                   buildVars, inv, queries, threw, ret>>

\* ------------------------------------------------------------ scheduling
\* The call is suspended on a promise that settles without I/O: the
\* embedding of a chunk or of a query (createEmbedding computes its result
\* synchronously), the return of indexCodebase after its last step, and
\* Promise.all once every invocation has settled.  Its continuation is in
\* the microtask queue.
Microtask(c) ==
    \/ pc[c] \in {"embed", "indexOk", "indexErr"}
    \/ /\ pc[c] = "tools"
       /\ \/ Settled(c)
          \/ \E i \in 1..Len(inv[c]) : inv[c][i].st = "embedQuery"

\* No continuation is in the microtask queue: the event loop delivers the
\* next I/O completion or runs the next piece of caller code
Quiet == \A d \in Calls : ~Microtask(d)

\* Call c may be resumed
Ready(c) == Microtask(c) \/ Quiet

\* ------------------------------------------------------------------ Next
\* Steps of the calls in flight up to their first model query
IndexStep ==
    \/ \E c \in Calls : Ready(c) /\ ResolveDone(c)
    \/ \E c \in Calls, ok \in BOOLEAN : Ready(c) /\ GlobDone(c, ok)
    \/ \E c \in Calls : Ready(c) /\ ReadDone(c)
    \/ \E c \in Calls : Ready(c) /\ EmbedDone(c)
    \/ \E c \in Calls : Ready(c) /\ IndexReturn(c)

\* Steps of the calls in flight, with first replies drawn from R1 and
\* replies to the re-query from R2
Step(R1, R2) ==
    \/ IndexStep
    \/ \E c \in Calls, reply \in R1 : Ready(c) /\ Model1Reply(c, reply)
    \/ \E c \in Calls, i \in 1..MaxBatch : Ready(c) /\ ToolSettle(c, i)
    \/ \E c \in Calls : Ready(c) /\ ToolsJoin(c)
    \/ \E c \in Calls, reply \in R2 : Ready(c) /\ Model2Reply(c, reply)
    \/ \E c \in Calls : Ready(c) /\ ModelThrows(c)

\* One agent, one chat() call at a time, with clearHistory() at any time
Next ==
    \/ \E c \in Calls : Quiet /\ ChatStart(c, 1)
    \/ Step(Replies, FinalReplies)
    \/ Quiet /\ ClearHistory(1)

Spec == Init /\ [][Next]_vars

\* chat() calls made at any time, on agents that share the tools
NextOverlap ==
    \/ \E c \in Calls, a \in Agents : Quiet /\ ChatOverlap(c, a)
    \/ Step(OverlapReplies, OverlapReplies)

SpecOverlap == Init /\ [][NextOverlap]_vars

\* The lines of the plans: steps with each of the three commands, a step
\* with no command, a step that names no folder, a line that is no step
\* but holds the words of a command, and the empty line
PlanLines == <<"1. create a folder named app", "2. initialize a new Node.js project",
               "10. install dependencies", "4. review the result",
               "5. create a folder named", "- install dependencies", "">>

MaxPlanLines == 3

\* The plans of up to MaxPlanLines lines
Plans ==
    {Join([i \in DOMAIN ls |-> PlanLines[ls[i]]]) :
        ls \in UNION {[1..n -> 1..Len(PlanLines)] : n \in 1..MaxPlanLines}}

\* executePlan called on any of the plans, each command succeeding or
\* failing
NextPlan ==
    \/ \E plan \in Plans : ExecutePlan(plan)
    \/ \E ok \in BOOLEAN : ExecDone(ok)

SpecPlan == Init /\ [][NextPlan]_vars

\* chat(), indexCodebase() and clearHistory() called one at a time on any
\* agent, each chat() answered by a text reply
NextAgent ==
    \/ \E c \in Calls, a \in Agents : Quiet /\ ChatStart(c, a)
    \/ \E c \in Calls, a \in Agents : AgentIndexCodebase(c, a)
    \/ IndexStep
    \/ \E c \in Calls : Ready(c) /\ AgentIndexCodebaseReturn(c)
    \/ \E c \in Calls : Ready(c) /\ Model1Reply(c, Content(<<TextPart("answer")>>))
    \/ \E a \in Agents : Idle /\ ClearHistory(a)

SpecAgent == Init /\ [][NextAgent]_vars

\* One chat() call at a time, on any agent, answered by a text reply, with
\* files removed and restored between the calls
NextIndex ==
    \/ \E c \in Calls, a \in Agents : Quiet /\ ChatStart(c, a)
    \/ IndexStep
    \/ \E c \in Calls : Ready(c) /\ Model1Reply(c, Content(<<TextPart("answer")>>))
    \/ \E f \in FileSet : FileChange(f)

SpecIndex == InitIndex /\ [][NextIndex]_vars

\* One agent, one chat() call at a time, over a first file of any length
NextChunk ==
    \/ \E c \in Calls : Quiet /\ ChatStart(c, 1)
    \/ IndexStep
    \/ \E c \in Calls : Ready(c) /\ Model1Reply(c, Content(<<TextPart("answer")>>))

SpecChunk == InitChunk /\ [][NextChunk]_vars

\* ------------------------------------------------ calls on the tools
MaxLimit == 2

\* File contents of the searches: the empty file, a file of one line, and a
\* file whose two lines both hold the word of the first
ToolTexts == {EmptyText, Text(<<"foo">>), Text(<<"foo", "Foo bar">>)}

\* A directory of three readable files, the last one of one line
InitTools ==
    /\ readable = {AllFiles[i] : i \in 1..Len(AllFiles)}
    /\ content \in [{AllFiles[i] : i \in 1..Len(AllFiles)} -> ToolTexts]
    /\ content[AllFiles[3]] = Text(<<"foo">>)
    /\ InitProgram

\* The queries of the searches: strings, and a query that is not a string
SearchQueries == {TextQuery(""), TextQuery("foo"), TextQuery("bar foo"), ObjectQuery}

\* The user inputs given to resolveContextFiles
UserInputs == {"hi @", "see @a.ts", "@lib:c.ts and @a.ts", "@b.ts, me@a.ts"}

\* The vectors given to cosineSimilarity: embeddings, the vector of 1536
\* zeros and the vector of no component
InputVectors ==
    {createSimpleEmbedding(""), createSimpleEmbedding("foo bar"),
     createSimpleEmbedding("foo"), ZeroVector(EmbeddingLength), ZeroVector(0)}

\* The texts createSimpleEmbedding is applied to; the 32-bit hash of
\* search is negative and that of xfjfxtf is -2^31
EmbeddingTexts == {"", " ", "foo", "Foo  bar\n", "xfjfxtf", "search Xfjfxtf"}

NextTools ==
    \/ \E c \in Calls : IndexCodebaseCall(c)
    \/ \E c \in Calls, ok \in BOOLEAN : Ready(c) /\ GlobDone(c, ok)
    \/ \E c \in Calls : Ready(c) /\ ReadDone(c)
    \/ \E c \in Calls : Ready(c) /\ EmbedDone(c)
    \/ \E c \in Calls : IndexCodebaseReturn(c)
    \/ \E f \in DOMAIN content : FileChange(f)
    \/ \E query \in SearchQueries, limit \in 0..MaxLimit :
          \E fuse \in FuseSearch(query) : SearchCodebase(query, limit, fuse)
    \/ \E searchTerm \in {"foo", "bar"}, ok \in BOOLEAN : Grep(searchTerm, ok)
    \/ \E input \in UserInputs : ResolveContextFiles(input)
    \/ \E text \in EmbeddingTexts : CreateSimpleEmbedding(text)
    \/ \E a \in InputVectors, b \in InputVectors : CosineSimilarity(a, b)

SpecTools == InitTools /\ [][NextTools]_vars

\* =========================================================== properties
Last(h) == h[Len(h)]

IsPrefix(g, h) == Len(g) <= Len(h) /\ SubSeq(h, 1, Len(g)) = g

HasCalls(turn) == turn.role = "model" /\ FunctionCallsOf(turn.parts) # <<>>

HasResponse(turn) ==
    \E k \in 1..Len(turn.parts) : turn.parts[k].type = "functionResponse"

AllResponses(turn) ==
    /\ turn.role = "user"
    /\ \A k \in 1..Len(turn.parts) : turn.parts[k].type = "functionResponse"

\* Turn i of h requests tool calls and turn i + 1 answers each of them once
Answered(h, i) ==
    /\ i < Len(h)
    /\ AllResponses(h[i + 1])
    /\ Len(h[i + 1].parts) = Len(FunctionCallsOf(h[i].parts))
    /\ \A k \in 1..Len(h[i + 1].parts) :
          h[i + 1].parts[k].name = FunctionCallsOf(h[i].parts)[k].name

NoDangling(h) == \A i \in 1..Len(h) : HasCalls(h[i]) => Answered(h, i)

\* The step issues a generateContent call of call c
Queries(c) == queries'[c] = queries[c] + 1

\* C1: no model query is issued while the history it sends holds a model
\* turn with tool-call requests that the next turn does not answer, one
\* response per request.
C1_NoQueryOverUnansweredCalls ==
    [][\A c \in Calls : Queries(c) => NoDangling(history'[agent'[c]])]_vars

\* C2: when the first reply holds N >= 1 tool-call requests, the step that
\* issues the second query has pushed one turn of exactly N response parts,
\* part i carrying the name of request i, in whatever order the invocations
\* settled.
C2_OneResponsePerRequest ==
    [][\A c \in Calls :
         (Queries(c) /\ queries[c] = 1) =>
            LET h == history'[agent[c]] IN
            /\ Len(inv[c]) >= 1
            /\ Len(h) = Len(history[agent[c]]) + 1
            /\ AllResponses(Last(h))
            /\ Len(Last(h).parts) = Len(inv[c])
            /\ \A i \in 1..Len(inv[c]) : Last(h).parts[i].name = inv[c][i].name]_vars

\* A second query was issued for a batch of two different requests, the
\* second of which settled before the first could matter to the order
C2_Witness ==
    /\ pc[1] = "model2"
    /\ Len(inv[1]) = 2
    /\ inv[1][1].name # inv[1][2].name
    /\ Len(Last(history[1]).parts) = 2

\* C3: a search never reads an index that a rebuild has left partly built.
C3_SearchSeesWholeIndex ==
    \A c \in Calls : \A i \in 1..Len(inv[c]) : inv[c][i].saw # "partial"

\* C4: a chat() call queries the model at most twice, and after the second
\* query it can only return.
C4_AtMostTwoQueries ==
    \A c \in Calls :
        /\ queries[c] <= 2
        /\ queries[c] = 2 => pc[c] \in {"model2", "done"}
        /\ pc[c] = "done" => ret[c].kind = "returned"

\* The call returned after a second reply that again requested a tool
C4_Witness ==
    /\ pc[1] = "done"
    /\ queries[1] = 2
    /\ HasCalls(Last(history[1]))
    /\ ret[1] = Returned("No final text response.")

\* C5: a failing invocation yields an error part for itself only: the batch
\* is left only by pushing the combined turn and re-querying the model, and
\* part i is an error exactly when invocation i failed.
C5_FailureIsolated ==
    [][\A c \in Calls :
         (pc[c] = "tools" /\ pc'[c] # "tools") =>
            LET h == history'[agent[c]] IN
            /\ pc'[c] = "model2"
            /\ Queries(c)
            /\ Len(Last(h).parts) = Len(inv[c])
            /\ \A i \in 1..Len(inv[c]) :
                  Last(h).parts[i].key =
                     IF executeToolCall(inv[c][i].name).ok THEN "result" ELSE "error"]_vars

\* The re-query was issued after a batch with a failed and a successful call
C5_Witness ==
    /\ pc[1] = "model2"
    /\ \E i, j \in 1..Len(Last(history[1]).parts) :
          /\ Last(history[1]).parts[i].key = "error"
          /\ Last(history[1]).parts[j].key = "result"

\* C6 as stated: when a model call throws, chat() fails.
C6_ChatFailsOnServiceFailure ==
    \A c \in Calls : (threw[c] /\ pc[c] = "done") => ret[c].kind = "thrown"

\* C6 amended: when a model call throws, chat() ends the turn by returning
\* the error message as its reply.
C6_ChatReturnsErrorText ==
    \A c \in Calls :
        (threw[c] /\ pc[c] = "done") => ret[c] = Returned("I encountered an error")

C6_Witness == pc[1] = "done" /\ threw[1] /\ queries[1] = 2

\* C7: the step in which a model call fails leaves every history as it is
\* and ends the call; the turns pushed before the failure are the last ones
\* of the history unless it was cleared, and a call that has ended appends
\* nothing.
C7_HistoryKeptOnFailure ==
    [][\A c \in Calls :
         /\ (~threw[c] /\ threw'[c]) =>
               LET h == history'[agent[c]] IN
               /\ history' = history
               /\ pc'[c] = "done"
               /\ (Len(h) > 1 /\ queries[c] = 1) => Last(h) = UserTurn
               /\ (Len(h) > 1 /\ queries[c] = 2) => AllResponses(Last(h))
               /\ (Len(h) > 2 /\ queries[c] = 2) => Answered(h, Len(h) - 1)
         /\ (pc[c] = "done" /\ pc'[c] = "done") =>
               Len(history'[agent[c]]) <= Len(history[agent[c]])]_vars

\* The re-query failed and the tool-call turn and its responses are kept
C7_Witness ==
    /\ pc[1] = "done"
    /\ threw[1]
    /\ queries[1] = 2
    /\ Len(history[1]) > 2
    /\ Answered(history[1], Len(history[1]) - 1)

\* C8: the responses of a batch are pushed as one user turn of response
\* parts only, complete, and never while an invocation is unsettled.
C8_CombinedTurn ==
    /\ \A c \in Calls : pc[c] = "tools" => ~HasResponse(Last(history[agent[c]]))
    /\ \A a \in Agents : \A i \in 2..Len(history[a]) :
          HasResponse(history[a][i]) =>
             /\ AllResponses(history[a][i])
             /\ ~HasResponse(history[a][i - 1])
             /\ HasCalls(history[a][i - 1]) => Answered(history[a], i - 1)

\* One invocation of a batch of two has settled and the other has not
C8_Witness ==
    /\ pc[1] = "tools"
    /\ Len(inv[1]) = 2
    /\ inv[1][2].st = "settled"
    /\ inv[1][1].st # "settled"

\* C9: the turns of two chat() calls never interleave in one history.
C9_NoInterleavedTurns ==
    \A a \in Agents : \A i, j, k \in 1..Len(owner[a]) :
        (i < j /\ j < k /\ owner[a][i] # 0 /\ owner[a][i] = owner[a][k])
            => owner[a][j] = owner[a][i]

\* C10: every step either appends to a history or leaves exactly the
\* instruction turn, and the first turn is always the instruction turn.
C10_AppendOnly ==
    /\ [](\A a \in Agents : Len(history[a]) >= 1 /\ history[a][1] = InstructionTurn)
    /\ [][\A a \in Agents :
            \/ IsPrefix(history[a], history'[a])
            \/ history'[a] = <<InstructionTurn>>]_vars

\* A call that had pushed its turns was followed by clearHistory()
C10_Witness ==
    /\ pc[1] = "done"
    /\ queries[1] = 2
    /\ history[1] = <<InstructionTurn>>

\* C11: a request whose name executeToolCall has no case for fails alone:
\* when the batch is left, the re-query is issued, and the part answering
\* such a request carries its name and an error whose message begins with
\* "Unknown tool".
C11_UnknownToolIsError ==
    [][\A c \in Calls :
         (pc[c] = "tools" /\ pc'[c] # "tools") =>
            /\ pc'[c] = "model2"
            /\ Queries(c)
            /\ \A i \in 1..Len(inv[c]) :
                  inv[c][i].name \notin HandledNames =>
                     LET part == Last(history'[agent[c]]).parts[i] IN
                     /\ part.type = "functionResponse"
                     /\ part.name = inv[c][i].name
                     /\ part.key = "error"
                     /\ SubSeq(part.value, 1, Len("Unknown tool")) = "Unknown tool"]_vars

\* The re-query was issued after a batch of an unknown tool and a tool that
\* succeeded
C11_Witness ==
    /\ pc[1] = "model2"
    /\ \E i, j \in 1..Len(Last(history[1]).parts) :
          /\ Last(history[1]).parts[i].name = "deleteFile"
          /\ Last(history[1]).parts[i].value = "Unknown tool: deleteFile"
          /\ Last(history[1]).parts[j].name = "readFile"
          /\ Last(history[1]).parts[j].key = "result"

AppendsPlainReply(c) ==
    /\ pc[c] = "model1"
    /\ Len(history'[agent[c]]) = Len(history[agent[c]]) + 1
    /\ ~HasCalls(Last(history'[agent[c]]))

C14_VectorsHaveChunks ==
    \A k \in 1..Len(embeddings) :
        \E i \in 1..Len(codeChunks) : ChunkKey(codeChunks[i]) = embeddings[k]

\* One build has pushed a chunk and awaits its vector, with vectors already
\* registered, while the build of another call is suspended at a read
C14_Witness ==
    \E c, d \in Calls :
        /\ pc[c] = "embed"
        /\ pc[d] = "read"
        /\ Len(embeddings) >= 1
        /\ Len(codeChunks) > Len(embeddings)

\* C15: no two chunks of the chunk list have the same file path and start
\* line, in every state, those of overlapping rebuilds included.
C15_ChunkKeysUnique ==
    \A i, j \in 1..Len(codeChunks) :
        ChunkKey(codeChunks[i]) = ChunkKey(codeChunks[j]) => i = j

\* The chunks of file f in a chunk list, and the keys of file f in a key list
ChunksOf(list, f) == SelectSeq(list, LAMBDA chunk : chunk.filePath = f)

KeysOf(keys, f) == SelectSeq(keys, LAMBDA k : k[1] = f)

KeysOfChunks(list) == [i \in 1..Len(list) |-> ChunkKey(list[i])]

\* The chunks of the files that can be read, from file i of codeFiles on
RECURSIVE ReadableChunks(_)
ReadableChunks(i) ==
    IF i > Len(codeFiles) THEN <<>>
    ELSE (IF codeFiles[i] \in readable
          THEN splitCodeIntoChunks(codeFiles[i], content[codeFiles[i]])
          ELSE <<>>)
         \o ReadableChunks(i + 1)

\* C16: a file that cannot be read does not fail the build: the step that
\* meets it leaves the index as it is and goes on to the next file or to a
\* successful return, and the completed build holds no chunk and no vector
\* of an unreadable file and all chunks and vectors of every readable one,
\* those of a 2000-line file being 1-1000, 951-1950 and 1901-2000.
C16_UnreadableFileSkipped ==
    /\ [](\A c \in Calls : pc[c] = "indexOk" =>
            \A f \in FileSet :
               IF f \in readable
               THEN /\ ChunksOf(codeChunks, f) = splitCodeIntoChunks(f, content[f])
                    /\ KeysOf(embeddings, f) = KeysOfChunks(ChunksOf(codeChunks, f))
                    /\ content[f] = Lines(2000) =>
                          ChunksOf(codeChunks, f) =
                             <<[filePath |-> f, startLine |-> 1, endLine |-> 1000],
                               [filePath |-> f, startLine |-> 951, endLine |-> 1950],
                               [filePath |-> f, startLine |-> 1901, endLine |-> 2000]>>
               ELSE /\ ChunksOf(codeChunks, f) = <<>>
                    /\ KeysOf(embeddings, f) = <<>>)
    /\ [][\A c \in Calls :
            (/\ pc[c] = "read"
             /\ codeFiles[bfile[c]] \notin readable
             /\ <<pc[c], bfile[c]>>' # <<pc[c], bfile[c]>>) =>
               /\ pc'[c] \in {"read", "indexOk"}
               /\ codeChunks' = codeChunks
               /\ embeddings' = embeddings]_vars

\* A build has completed in which the first file could not be read and the
\* second one, of 2000 lines, gave its three chunks
C16_Witness ==
    /\ pc[1] = "indexOk"
    /\ codeFiles[1] \notin readable
    /\ codeFiles[2] \in readable
    /\ content[codeFiles[2]] = Lines(2000)
    /\ Len(codeChunks) = 3
    /\ Len(embeddings) = 3

\* C17: the step that completes a build that no other build overlapped
\* leaves in the index exactly the chunks and the vectors of the files the
\* build could read, in the order it read them.
C17_RebuildReplacesIndex ==
    [][\A c \in Calls :
         (pc[c] # "indexOk" /\ pc'[c] = "indexOk") =>
            /\ codeChunks' = ReadableChunks(1)
            /\ embeddings' = KeysOfChunks(ReadableChunks(1))]_vars

\* The second agent has rebuilt the index after the first agent had built
\* it, and the first file, now unreadable, has no chunk in it
C17_Witness ==
    /\ pc[1] = "indexOk"
    /\ agent[1] = 2
    /\ isIndexed[1]
    /\ codeFiles[1] \notin readable
    /\ content[codeFiles[1]] = Lines(2000)
    /\ codeChunks = splitCodeIntoChunks(codeFiles[2], content[codeFiles[2]])
    /\ codeFiles[2] \in readable

\* C18: the chunks of a text of L >= 1 lines start at line 1, end at line
\* L, leave no line between two consecutive chunks uncovered, and every two
\* consecutive chunks share exactly 50 lines, the last pair excepted.
C18_ChunksCoverWithOverlap ==
    \A f \in FileSet :
        ~content[f].empty =>
           LET L == SplitLength(content[f])
               chunks == splitCodeIntoChunks(f, content[f])
           IN /\ Len(chunks) >= 1
              /\ chunks[1].startLine = 1
              /\ chunks[Len(chunks)].endLine = L
              /\ \A k \in 1..Len(chunks) :
                    /\ 1 <= chunks[k].startLine
                    /\ chunks[k].startLine <= chunks[k].endLine
                    /\ chunks[k].endLine <= L
              /\ \A k \in 1..(Len(chunks) - 1) :
                    chunks[k + 1].startLine <= chunks[k].endLine + 1
              /\ \A k \in 1..(Len(chunks) - 2) :
                    chunks[k].endLine - chunks[k + 1].startLine + 1 = 50

\* A build has indexed a text of 1920 lines: three chunks, the first two
\* sharing 50 lines and the last two sharing 20
C18_Witness ==
    /\ pc[1] = "indexOk"
    /\ content[codeFiles[1]] = Lines(1920)
    /\ Len(ChunksOf(codeChunks, codeFiles[1])) = 3
    /\ codeChunks[1].endLine - codeChunks[2].startLine + 1 = 50
    /\ codeChunks[2].endLine - codeChunks[3].startLine + 1 = 20

\* C19: a text of 1 to 999 lines gives exactly one chunk, from line 1 to its
\* last line.
C19_ShortTextOneChunk ==
    \A f \in FileSet :
        (~content[f].empty /\ SplitLength(content[f]) < 1000) =>
           splitCodeIntoChunks(f, content[f]) =
              <<[filePath |-> f, startLine |-> 1,
                 endLine |-> SplitLength(content[f])]>>

\* C20: the empty text gives no chunk, and an empty file has no chunk and
\* no vector in the index.
C20_EmptyTextNoChunk ==
    \A f \in FileSet :
        content[f].empty =>
           /\ splitCodeIntoChunks(f, content[f]) = <<>>
           /\ ChunksOf(codeChunks, f) = <<>>
           /\ KeysOf(embeddings, f) = <<>>

\* ------------------------------------------------------ the direct calls
Searched == toolCall.name = "searchCodebase"

\* C21: searchCodebase on an index with zero chunks returns the empty
\* sequence and does not fail, whatever the query and the limit are.
C21_EmptyIndexEmptyResult ==
    (Searched /\ Len(codeChunks) = 0) => (toolResult.ok /\ toolResult.list = <<>>)

\* A search, by a query that is not a string, after a build has returned
\* on a directory without a file that can be read
C21_Witness ==
    /\ Searched
    /\ pc[1] = "done"
    /\ readable = {}
    /\ published = [chunks |-> <<>>, vectors |-> <<>>]
    /\ Len(codeChunks) = 0
    /\ ~toolCall.query.isString
    /\ toolCall.limit = MaxLimit
    /\ toolResult.list = <<>>

\* x >= y on scores that are numbers
AtLeast(x, y) ==
    /\ x.kind = "number" /\ y.kind = "number"
    /\ x.num * x.num * y.den2 >= y.num * y.num * x.den2

\* C22: the results of searchCodebase are in non-increasing order of score,
\* and there are no more of them than limit and than indexed chunks.
C22_RankedAndBounded ==
    Searched =>
        /\ toolResult.ok
        /\ \A i, j \in 1..Len(toolResult.list) :
              i < j => AtLeast(toolResult.list[i].score, toolResult.list[j].score)
        /\ Len(toolResult.list) <= toolCall.limit
        /\ Len(toolResult.list) <= Len(codeChunks)

\* A search that returns two results, the chunk indexed second ranking
\* strictly above the chunk indexed first
C22_Witness ==
    /\ Searched
    /\ toolCall.limit = 2
    /\ Len(codeChunks) = 3
    /\ Len(toolResult.list) = 2
    /\ toolResult.list[1].file = "b.ts"
    /\ toolResult.list[2].file = "a.ts"
    /\ Greater(toolResult.list[1].score, toolResult.list[2].score)

\* The text holds no token: the Vectorizer is specified to map it to the
\* all-zero vector
Tokenless(text) ==
    \A i \in 1..Len(SplitSpaces(text)) : SplitSpaces(text)[i] = ""

HoldsTerm(line, term) ==
    \E p \in 0..(Len(line) - Len(term)) :
        toLowerCase(SubSeq(line, p + 1, p + Len(term))) = toLowerCase(term)

\* The lines grep is to report: those that hold the term, in the files that
\* can be read
MatchingLines(term) ==
    UNION {{<<f, i>> : i \in {j \in 1..Len(FileLines(f)) :
                                 HoldsTerm(FileLines(f)[j], term)}} :
           f \in readable}

\* C24: grep returns one entry for every line that matches the term
\* case-insensitively, in every readable file, with the 1-based number of
\* the line; consecutive matching lines of a file are all reported.
C24_EveryMatchingLineReported ==
    (toolCall.name = "grep" /\ toolResult.ok) =>
        /\ \A m \in MatchingLines(toolCall.searchTerm) :
              \E k \in 1..Len(toolResult.list) :
                  toolResult.list[k] =
                      [file |-> m[1], line |-> m[2],
                       content |-> trim(FileLines(m[1])[m[2]])]
        /\ Len(toolResult.list) = Cardinality(MatchingLines(toolCall.searchTerm))

\* The candidate tokens of an input without quotes: of every piece between
\* white space that holds an @ before its end, what follows its first @
RECURSIVE TokensOf(_)
TokensOf(pieces) ==
    IF pieces = <<>> THEN <<>>
    ELSE LET w == Head(pieces)
             at == PositionIn("@", w)
         IN (IF 0 < at /\ at < Len(w) THEN <<SubSeq(w, at + 1, Len(w))>> ELSE <<>>)
            \o TokensOf(Tail(pieces))

\* One fenced block, labelled with the path and holding the content of the
\* file, for every token that names a file that can be read
RECURSIVE BlocksOf(_)
BlocksOf(tokens) ==
    IF tokens = <<>> THEN ""
    ELSE (IF Head(tokens) \in readable
          THEN "\n\n\n~~~" \o Head(tokens) \o "\n"
               \o Join(FileLines(Head(tokens))) \o "\n~~~\n"
          ELSE "")
         \o BlocksOf(Tail(tokens))

\* C25: resolveContextFiles returns the input, unaltered, followed by one
\* fenced block per token whose read succeeded, in the order of the tokens;
\* a token whose read fails adds nothing and raises no error, and without a
\* readable token the result is the input.
C25_InputThenBlocks ==
    toolCall.name = "resolveContextFiles" =>
        /\ toolResult.ok
        /\ toolResult.value =
              toolCall.input \o BlocksOf(TokensOf(SplitSpaces(toolCall.input)))

\* An input of two tokens, the first of a file that cannot be read and the
\* second of a file of two lines that can
C25_Witness ==
    /\ toolCall.name = "resolveContextFiles"
    /\ toolCall.input = "@lib:c.ts and @a.ts"
    /\ "lib:c.ts" \notin readable
    /\ "a.ts" \in readable
    /\ toolResult.value = "@lib:c.ts and @a.ts\n\n\n~~~a.ts\nfoo\nFoo bar\n~~~\n"

\* The query has an embedding the vector path can use: createEmbedding
\* returns a vector of one component or more for it
Usable(query) ==
    query.isString /\ createSimpleEmbedding(query.value).length > 0

\* C26: every result list of searchCodebase comes wholly from one path: the
\* vector path whenever the index holds a vector and the query embedding is
\* usable, the fuzzy path only otherwise; no list mixes entries scored by
\* cosine similarity with entries scored by fuzzy match.
C26_OnePathPerResult ==
    Searched =>
        /\ (Len(embeddings) > 0 /\ Usable(toolCall.query))
              => toolResult.path = "vector"
        /\ toolResult.path = "fuzzy"
              => ~(Len(embeddings) > 0 /\ Usable(toolCall.query))
        /\ \A k \in 1..Len(toolResult.list) :
              toolResult.list[k].by =
                  (IF toolResult.path = "vector" THEN "cosine" ELSE "fuzzy")

\* A search over an index that holds vectors, by a query without a usable
\* embedding: two results of the fuzzy path
C26_Witness ==
    /\ Searched
    /\ Len(embeddings) > 0
    /\ ~Usable(toolCall.query)
    /\ toolResult.path = "fuzzy"
    /\ Len(toolResult.list) = 2

\* C27: createSimpleEmbedding("") is the all-zero vector of 1536
\* components.
C27_EmptyTextZeroVector ==
    (toolCall.name = "createSimpleEmbedding" /\ toolCall.text = "") =>
        (toolResult.length = 1536 /\ IsZero(toolResult))

\* C28: in the vector path every (key, vector) pair of the index is
\* resolved back to its chunk, whatever the file path is, so that a search
\* with a limit of at least the number of vectors returns exactly one
\* result per vector.
C28_OneResultPerVector ==
    (/\ Searched
     /\ toolResult.path = "vector"
     /\ toolCall.limit >= Len(embeddings))
    => /\ Len(toolResult.list) = Len(embeddings)
       /\ \A i \in 1..Len(embeddings) :
             \E k \in 1..Len(toolResult.list) :
                 /\ toolResult.list[k].file = embeddings[i][1]
                 /\ toolResult.list[k].line = embeddings[i][2]

\* C29: chunks of equal score are returned in the order in which they were
\* inserted into the index, whatever builds produced the index.
C29_TiesInInsertionOrder ==
    Searched =>
        \A i, j \in 1..Len(toolResult.list) :
            (/\ i < j
             /\ AtLeast(toolResult.list[i].score, toolResult.list[j].score)
             /\ AtLeast(toolResult.list[j].score, toolResult.list[i].score))
            => FindChunk(toolResult.list[i].file, toolResult.list[i].line)
                 < FindChunk(toolResult.list[j].file, toolResult.list[j].line)

\* Two chunks with the text of the query, returned by the vector path with
\* the same score, after a build that followed a change of the files
C29_Witness ==
    /\ Searched
    /\ toolResult.path = "vector"
    /\ Len(toolResult.list) = 2
    /\ toolResult.list[1].file = "a.ts"
    /\ toolResult.list[2].file = "b.ts"
    /\ toolResult.list[1].score = Number(1, 1)
    /\ toolResult.list[2].score = Number(1, 1)
    /\ "lib:c.ts" \notin readable

C31_FailedGlobKeepsIndex ==
    /\ [](Idle => Index = published)
    /\ [][\A c \in Calls :
             (pc[c] = "indexErr" \/ (pc[c] = "glob" /\ pc'[c] = "indexErr"))
             => (codeChunks' = codeChunks /\ embeddings' = embeddings)]_vars

\* The enumeration of a rebuild has failed over an index of three chunks
C31_Witness ==
    /\ pc[1] = "indexErr"
    /\ Len(codeChunks) = 3
    /\ Len(embeddings) = 3
    /\ Index = published

\* C32: a failure of the index build inside chat() does not abort the turn:
\* the user turn is already appended, the model is queried next, isIndexed
\* stays false, and the next chat() on that agent starts the build again.
C32_FailedBuildTurnGoesOn ==
    [][\A c \in Calls :
          /\ pc[c] = "indexErr"
                => /\ Last(history[agent[c]]) = UserTurn
                   /\ Last(owner[agent[c]]) = c
                   /\ pc'[c] = "model1"
                   /\ queries'[c] = queries[c] + 1
                   /\ ret'[c] = Pending
                   /\ ~isIndexed'[agent[c]]
          /\ (pc[c] = "resolve" /\ pc'[c] # "resolve" /\ ~isIndexed[agent[c]])
                => pc'[c] = "glob"]_vars

\* The second chat() call on an agent builds again: the first one ended
\* with its reply and left isIndexed false
C32_Witness ==
    /\ pc[1] = "glob"
    /\ ~isIndexed[agent[1]]
    /\ Len(history[agent[1]]) = 4
    /\ history[agent[1]][3].role = "model"

\* C33: once an index build started by an agent, from chat() or from
\* indexCodebase(), has succeeded, isIndexed of the agent is set and stays
\* set over chat(), indexCodebase() and clearHistory() calls made one at a
\* time, and chat() starts a build only while isIndexed is false: no later
\* chat() on the agent starts another build.
C33_BuildsOnceSucceeded ==
    [][/\ \A c \in Calls :
             (pc[c] = "indexOk" /\ pc'[c] # "indexOk") => isIndexed'[agent[c]]
       /\ \A a \in Agents : isIndexed[a] => isIndexed'[a]
       /\ \A c \in Calls :
             (method'[c] = "chat" /\ pc[c] # "glob" /\ pc'[c] = "glob")
                => ~isIndexed[agent'[c]]]_vars

\* A chat() on the second agent, indexed by its indexCodebase() and then
\* cleared, is at its model query while the first agent has not built
C33_Witness ==
    /\ pc[1] = "model1"
    /\ method[1] = "chat"
    /\ agent[1] = 2
    /\ isIndexed[2]
    /\ ~isIndexed[1]
    /\ Len(history[2]) = 2
    /\ Len(history[1]) = 1

\* The texts of the entries of the given kind, in the order of the trace
Texts(trace, kind) ==
    LET entries == SelectSeq(trace, LAMBDA e : e.kind = kind)
    IN [i \in 1..Len(entries) |-> entries[i].text]

\* The line starts with one digit or more and a dot after them
Numbered(line) ==
    \E d \in 1..(Len(line) - 1) :
        /\ \A i \in 1..d : CharAt(line, i) \in {"0", "1", "2", "3", "4", "5", "6", "7", "8", "9"}
        /\ CharAt(line, d + 1) = "."

\* The numbered lines of a plan, in the order they appear
NumberedLines(plan) == SelectSeq(Split(plan, "\n"), Numbered)

\* A step has failed: its command, or the reading of its folder name
Failed(trace) == \E k \in 1..Len(trace) : trace[k].kind = "Error executing step"

\* C34: executePlan runs the numbered lines of the plan in the order they
\* appear and no other line; nothing is run and nothing more is reported
\* after a step that failed, Execution complete! least of all; a plan none
\* of whose steps failed is run to its last numbered line.
C34_StepsInOrderStopOnError ==
    LET trace == execution.trace
        run == Texts(trace, "Executing step")
    IN /\ IsPrefix(run, NumberedLines(execution.plan))
       /\ Len(Texts(trace, "exec")) <= Len(run)
       /\ \A k \in 1..Len(trace) :
             trace[k].kind = "Error executing step"
                => /\ k = Len(trace)
                   /\ execution.pc = "done"
                   /\ trace[k].text = run[Len(run)]
       /\ Failed(trace) => Texts(trace, "Execution complete!") = <<>>
       /\ (execution.pc = "done" /\ ~Failed(trace))
             => /\ run = NumberedLines(execution.plan)
                /\ Last(trace).kind = "Execution complete!"

\* The second of three steps has failed at its command, after the first
\* one was run, and the third one was not run
C34_Witness ==
    /\ execution.pc = "done"
    /\ Len(execution.steps) = 3
    /\ Texts(execution.trace, "exec") = <<"mkdir app", "npm init -y">>
    /\ Texts(execution.trace, "Done") = <<PlanLines[1]>>
    /\ Texts(execution.trace, "Error executing step") = <<PlanLines[2]>>
    /\ execution.steps[3] = PlanLines[3]

\* C35: every bucket createSimpleEmbedding increments lies in 0..1535, also
\* for a token whose 32-bit hash is -2^31, and the vector has 1536
\* components.
C35_BucketInRange ==
    toolCall.name = "createSimpleEmbedding"
        => /\ toolResult.length = 1536
           /\ DOMAIN toolResult.counts \subseteq 0..1535

\* The token whose hash is -2^31 was counted in bucket 2^31 % 1536
C35_Witness ==
    /\ toolCall.name = "createSimpleEmbedding"
    /\ toolCall.text = "xfjfxtf"
    /\ HashFrom(toolCall.text, 0) = -2147483647 - 1
    /\ DOMAIN toolResult.counts = {512}

====
